---- MODULE Spec2Model ----
(***************************************************************************)
(* A model of the launch pipeline of rust-xivloader                        *)
(* (src/src-tauri/src/ffxiv.rs): launch_game and the functions it calls,   *)
(* setup_dalamud, download_file, get_session_id, get_stored,               *)
(* create_suspended_game_process and inject_dalamud.                       *)
(*                                                                         *)
(* One launch attempt is a sequential task.  pc is the stage of            *)
(* launch_game the attempt is in and at is the program point inside the    *)
(* function that stage calls.  Every await and every operating-system or   *)
(* network call is one step; the answers of the outside world (HTTP        *)
(* responses, file-system results, exit codes) are chosen with \E.         *)
(***************************************************************************)
EXTENDS Integers, Sequences, FiniteSets, TLC

\* ------------------------------------------------------------------ bounds

\* Launch attempts the external caller makes one after the other.
MaxAttempts == 2

\* Runs of setup_dalamud over one disk.
MaxRuns == 2

\* The longest configured add-on path, in lexical items.
MaxPathLen == 3

\* The longest landing page, in lexical items.
MaxPageLen == 4

\* The largest asset version the server announces or asset.ver holds.
MaxAssetVersion == 1

\* ------------------------------------------------------- program constants

\* const MAX_RETRIES: u32 = 15 in download_file.
MAX_RETRIES == 15

\* fn default_injection_delay() -> u64 { 5000 }
default_injection_delay == 5000

\* ------------------------------------------------------------------ state

VARIABLES
    attempt,    \* number of launch_game invocations started so far
    config,     \* the LaunchConfig of the current attempt
    pc,         \* stage of launch_game the attempt is in
    at,         \* program point inside the function the stage runs
    metrics,    \* launch_game's `metrics` vector (one label per finished stage)
    result,     \* what launch_game returned (NoResult while it runs)
    sid,        \* launch_game's local `sid` (NoSid before it is bound)
    args,       \* launch_game's local `args` (NoArgs before it is bound)
    stored,     \* get_session_id's local `stored` ("unbound" before)
    body,       \* get_session_id's local `body`: the login.send response text
    issued,     \* login service: number of submissions it has answered
    trace,      \* calls to the outside world made by this attempt, in order
    handed,     \* game launch arguments handed out by this attempt, in order
    needs,      \* setup_dalamud's needs_dalamud_update / needs_asset_update
    dl,         \* download_file's frame: url script, retries, requests, status
    handles,    \* create_suspended_game_process: process_info and pid
    injector,   \* inject_dalamud: the output of the injector process
    disk,       \* the add-on host's files on disk, as setup_dalamud sees them
    sync,       \* the frame of a setup_dalamud run over that disk
    race,       \* two setup_dalamud runs updating the same dalamud_path at once
    pin,        \* the host version an attempt syncs and the one it injects
    pure        \* a call of one of the pure functions: its input and output

\* The state of a launch attempt.
launchVars == << attempt, config, pc, at, metrics, result, sid, args, stored, body,
                 issued, trace, handed, needs, dl, handles, injector >>

\* The state the launch pipeline above leaves alone: the disk model of the
\* add-on sync and the frame of a pure function.
syncVars == << disk, sync, race, pin >>

vars == << attempt, config, pc, at, metrics, result, sid, args, stored, body,
           issued, trace, handed, needs, dl, handles, injector, disk, sync, race, pin, pure >>

NoResult == [ok |-> FALSE, stage |-> "none", error |-> "none", cause |-> "none"]
\* Text is a sequence of lexical items: a literal piece of text, or a token
\* the login service issued (the n-th submission it answered gets token n).
Lit(k) == [kind |-> k, n |-> 0]
Tok(n) == [kind |-> "token", n |-> n]

NoSid == << Lit("unbound") >>
NoBody == << Lit("unread") >>
NoArgs == [DEV_TestSID |-> NoSid]

\* ------------------------------------------------------------ LaunchConfig

\* The fields of LaunchConfig that decide the control flow of the pipeline.
Delays == {0, default_injection_delay}

LaunchConfig == [enable_dalamud : BOOLEAN, injection_delay : Delays]

\* ------------------------------------------------------------ launch_game

Stages == {"Idle", "AddonSync", "PathPrepare", "SessionAcquire", "ArgsPrepared",
           "LaunchInjected", "LaunchDirect", "Done", "Failed"}

\* Faulty variant of NextStage: the session id is fetched before the add-on
\* sync.
NextStageTokenFirst(stage, c) ==
    CASE stage = "Idle"           -> "SessionAcquire"
      [] stage = "SessionAcquire" -> IF c.enable_dalamud THEN "AddonSync" ELSE "PathPrepare"
      [] stage = "AddonSync"      -> "PathPrepare"
      [] stage = "PathPrepare"    -> "ArgsPrepared"
      [] stage = "ArgsPrepared"   -> IF c.enable_dalamud THEN "LaunchInjected" ELSE "LaunchDirect"
      [] OTHER                    -> "Done"

\* Faulty variant of NextStage: the arguments are formatted before the
\* session id is fetched.
NextStageArgsFirst(stage, c) ==
    CASE stage = "Idle"           -> IF c.enable_dalamud THEN "AddonSync" ELSE "PathPrepare"
      [] stage = "AddonSync"      -> "PathPrepare"
      [] stage = "PathPrepare"    -> "ArgsPrepared"
      [] stage = "ArgsPrepared"   -> "SessionAcquire"
      [] stage = "SessionAcquire" -> IF c.enable_dalamud THEN "LaunchInjected" ELSE "LaunchDirect"
      [] OTHER                    -> "Done"

\* Faulty variant of NextStage: the launcher creates the process itself and
\* then also runs the injector (the attach flow of an earlier revision).
NextStageAttach(stage, c) ==
    CASE stage = "Idle"           -> IF c.enable_dalamud THEN "AddonSync" ELSE "PathPrepare"
      [] stage = "AddonSync"      -> "PathPrepare"
      [] stage = "PathPrepare"    -> "SessionAcquire"
      [] stage = "SessionAcquire" -> "ArgsPrepared"
      [] stage = "ArgsPrepared"   -> "LaunchDirect"
      [] stage = "LaunchDirect"   -> IF c.enable_dalamud THEN "LaunchInjected" ELSE "Done"
      [] OTHER                    -> "Done"

\* Faulty variant of NextStage: the arguments preparation is not a stage of
\* its own and pushes no timing.
NextStageNoArgsStage(stage, c) ==
    CASE stage = "Idle"           -> IF c.enable_dalamud THEN "AddonSync" ELSE "PathPrepare"
      [] stage = "AddonSync"      -> "PathPrepare"
      [] stage = "PathPrepare"    -> "SessionAcquire"
      [] stage = "SessionAcquire" -> IF c.enable_dalamud THEN "LaunchInjected" ELSE "LaunchDirect"
      [] OTHER                    -> "Done"

\* Faulty variant of NextStage: the game executable is looked for only after
\* the session id has been fetched.
NextStagePathAfterSession(stage, c) ==
    CASE stage = "Idle"           -> IF c.enable_dalamud THEN "AddonSync" ELSE "SessionAcquire"
      [] stage = "AddonSync"      -> "SessionAcquire"
      [] stage = "SessionAcquire" -> "PathPrepare"
      [] stage = "PathPrepare"    -> "ArgsPrepared"
      [] stage = "ArgsPrepared"   -> IF c.enable_dalamud THEN "LaunchInjected" ELSE "LaunchDirect"
      [] OTHER                    -> "Done"

\* The stage launch_game runs after `stage` has returned Ok: the statements
\* of launch_game in program order, with the two `if config.enable_dalamud`.
NextStage(stage, c) ==
    CASE stage = "Idle"           -> IF c.enable_dalamud THEN "AddonSync" ELSE "PathPrepare"
      [] stage = "AddonSync"      -> "PathPrepare"
      [] stage = "PathPrepare"    -> "SessionAcquire"
      [] stage = "SessionAcquire" -> "ArgsPrepared"
      [] stage = "ArgsPrepared"   -> IF c.enable_dalamud THEN "LaunchInjected" ELSE "LaunchDirect"
      [] OTHER                    -> "Done"

\* The first program point of the function a stage calls.
EntryPoint(stage) ==
    CASE stage = "AddonSync"      -> "check_dalamud_version"
      [] stage = "PathPrepare"    -> "exists"
      [] stage = "SessionAcquire" -> "get_stored"
      [] stage = "ArgsPrepared"   -> "format"
      [] stage = "LaunchInjected" -> "check_dalamud_version"
      [] stage = "LaunchDirect"   -> "InitializeSecurityDescriptor"
      [] OTHER                    -> "return"

\* The label launch_game pushes on `metrics` when a stage has returned Ok.
Metric(stage) ==
    CASE stage = "AddonSync"      -> "Dalamud setup"
      [] stage = "PathPrepare"    -> "Path preparation"
      [] stage = "SessionAcquire" -> "Session ID retrieval"
      [] stage = "ArgsPrepared"   -> "Arguments preparation"
      [] stage = "LaunchInjected" -> "Dalamud injection and launch"
      [] stage = "LaunchDirect"   -> "Game process creation"
      [] OTHER                    -> "none"

\* The text launch_game puts in front of the error of a failed stage.
StageError(stage) ==
    CASE stage = "AddonSync"      -> "Dalamud setup failed: "
      [] stage = "PathPrepare"    -> "Game executable not found at "
      [] stage = "SessionAcquire" -> "Failed to get session ID: "
      [] stage = "LaunchInjected" -> "Failed to launch game with Dalamud: "
      [] stage = "LaunchDirect"   -> "Failed to launch game: "
      [] OTHER                    -> "none"

\* The stage returned Ok: push its metric and run the next statement; after
\* the launch stage push the total and return the success summary.
Advance ==
    LET next == NextStage(pc, config) IN
    /\ pc' = next
    /\ at' = EntryPoint(next)
    /\ metrics' = IF next = "Done"
                    THEN metrics \o << Metric(pc), "Total launch time" >>
                    ELSE Append(metrics, Metric(pc))
    /\ result' = IF next = "Done"
                   THEN [ok |-> TRUE, stage |-> "Done",
                         error |-> "Game launched successfully. Performance metrics:",
                         cause |-> "none"]
                   ELSE result

\* The stage returned Err(cause): launch_game returns Err at once.
Fail(cause) ==
    /\ pc' = "Failed"
    /\ at' = "return"
    /\ metrics' = metrics
    /\ result' = [ok |-> FALSE, stage |-> pc, error |-> StageError(pc), cause |-> cause]

\* No download_file frame: for is the package, redirects and final the
\* answers the server will give (redirects redirections, then final).
NoDownload == [for |-> "none", redirects |-> 0, final |-> "none",
               retries |-> 0, requests |-> 0, status |-> "none",
               before |-> "none", dest |-> "none"]

\* process_info zeroed: no handle yet, nothing closed, no pid read.
NoHandles == [hProcess |-> "null", hThread |-> "null",
              closed |-> [hProcess |-> 0, hThread |-> 0],
              ospid |-> 0, pid |-> -1, err |-> "none"]

\* ---- the add-on host on disk ------------------------------------------
\* setup_dalamud works on `{base}/Hooks/{assembly_version}` (the version
\* directory), on `{dalamud_path}/dalamudAssets` with its asset.ver, and on two
\* temporary archives.  File names and contents are drawn from small sets.

\* The files a hashes.json may list.
Files == {"a.dll", "b.dll"}

\* What a path holds: nothing, a file fs::read fails on, or readable contents.
Contents == {"c1", "c2"}
FileStates == {"absent", "unreadable"} \cup Contents

\* `hex::encode(hasher.finalize())`: the lowercase hex digest, one per content.
Sha1Hex(contents) == [digest |-> contents, upper |-> FALSE]

\* `String::to_uppercase` on a hex digest (a digest holds letters a-f).
to_uppercase(hash) == [hash EXCEPT !.upper = TRUE]

\* A file hashes.json does not list, or an asset whose hash is None.
NoHash == [digest |-> "none", upper |-> FALSE]

RecordedHashes == {NoHash} \cup {Sha1Hex(c) : c \in Contents}
                     \cup {to_uppercase(Sha1Hex(c)) : c \in Contents}

\* hashes.json itself: missing, unreadable, not a JSON map, or a parsed map.
ManifestStates == {"missing", "unreadable", "malformed", "parsed"}

\* A version directory.
NoVersionDir ==
    [exists |-> FALSE, manifest |-> "missing",
     hashes |-> [f \in Files |-> NoHash], files |-> [f \in Files |-> "absent"],
     injector |-> FALSE, fasm |-> FALSE, marker |-> FALSE]

\* What the release archive of the add-on host normally holds.
GoodVersionDir ==
    [exists |-> TRUE, manifest |-> "parsed",
     hashes |-> [f \in Files |-> Sha1Hex(IF f = "a.dll" THEN "c1" ELSE "c2")],
     files |-> [f \in Files |-> IF f = "a.dll" THEN "c1" ELSE "c2"],
     injector |-> TRUE, fasm |-> TRUE, marker |-> FALSE]

\* The version directories a run may find: absent, intact, and one for each
\* way of not being intact.
VersionDirs ==
    { NoVersionDir,
      [GoodVersionDir EXCEPT !.marker = TRUE],
      [GoodVersionDir EXCEPT !.manifest = "missing"],
      [GoodVersionDir EXCEPT !.manifest = "unreadable"],
      [GoodVersionDir EXCEPT !.manifest = "malformed"],
      [GoodVersionDir EXCEPT !.files["a.dll"] = "absent"],
      [GoodVersionDir EXCEPT !.files["a.dll"] = "unreadable"],
      [GoodVersionDir EXCEPT !.files["b.dll"] = "c1"],
      [GoodVersionDir EXCEPT !.injector = FALSE],
      [GoodVersionDir EXCEPT !.fasm = FALSE] }

\* Archives the release server may hand out, as the entries they hold; an
\* entry that is "absent", "missing" or FALSE is not in the archive.
DalamudPackages ==
    [ good       |-> GoodVersionDir,
      tampered   |-> [GoodVersionDir EXCEPT !.files["a.dll"] = "c2"],
      nohashes   |-> [GoodVersionDir EXCEPT !.manifest = "missing"],
      noinjector |-> [GoodVersionDir EXCEPT !.injector = FALSE],
      nofasm     |-> [GoodVersionDir EXCEPT !.fasm = FALSE] ]

\* The asset files an asset manifest lists: one with a hash, one without.
Assets == {"font.otf", "icon.png"}

NoAssets == [a \in Assets |-> "absent"]

AssetPackages ==
    [ good    |-> [a \in Assets |-> "c1"],
      changed |-> [a \in Assets |-> IF a = "font.otf" THEN "c2" ELSE "c1"],
      nofont  |-> [a \in Assets |-> IF a = "font.otf" THEN "absent" ELSE "c1"],
      noicon  |-> [a \in Assets |-> IF a = "icon.png" THEN "absent" ELSE "c1"] ]

\* `AssetInfo`: the version and, per listed file, `hash: Option<String>`.
AssetInfos ==
    [ version : 0..MaxAssetVersion,
      hashes : { [a \in Assets |-> IF a = "font.otf" THEN h ELSE NoHash] :
                   h \in {to_uppercase(Sha1Hex("c1")), Sha1Hex("c1")} } ]

\* asset.ver: missing, text that is no integer, or a persisted integer.
NoAssetVer == [state |-> "missing", n |-> 0]
AssetVerFiles ==
    {NoAssetVer, [state |-> "garbage", n |-> 0]}
        \cup [state : {"int"}, n : 0..MaxAssetVersion]

NoDisk ==
    [dir |-> NoVersionDir, assets |-> NoAssets, asset_ver |-> NoAssetVer,
     dalamud_temp |-> "none", asset_temp |-> "none", dirs |-> FALSE]

\* The frame of setup_dalamud.
NoSync ==
    [run |-> 0, at |-> "return", result |-> "none",
     needs_dalamud_update |-> FALSE, needs_asset_update |-> FALSE,
     current_asset_ver |-> 0,
     asset_info |-> [version |-> 0, hashes |-> [a \in Assets |-> NoHash]],
     found |-> NoDisk, trace |-> << >>]

\* No pure function has been called.
NoCall == [fn |-> "none", input |-> << >>, output |-> << >>, done |-> FALSE]

\* Two launch attempts whose setup_dalamud runs update the same dalamud_path.
Attempts == {"A", "B"}

\* The temporary archives of setup_dalamud: `dalamud_temp.zip` and
\* `asset_package_temp.zip`.
TempFiles == {"dalamud_temp.zip", "asset_package_temp.zip"}

\* `format!("{}/<file>", config.dalamud_path)` if every attempt had a
\* directory of its own.
TempPathPerAttempt(who, file) == [owner |-> who, file |-> file]

\* `format!("{}/dalamud_temp.zip", config.dalamud_path)` and
\* `format!("{}/asset_package_temp.zip", config.dalamud_path)`: the path is
\* built from the configured directory alone, whichever attempt asks.
TempPath(who, file) == [owner |-> "dalamud_path", file |-> file]

RacePaths == [owner : {"dalamud_path"} \cup Attempts, file : TempFiles]

\* Neither run has an update to do and no temporary archive exists.
NoRace ==
    [at       |-> [p \in Attempts |-> "return"],
     got      |-> [p \in Attempts |-> "none"],
     unpacked |-> [p \in Attempts |-> "none"],
     error    |-> [p \in Attempts |-> "none"],
     temp     |-> [path \in RacePaths |-> "none"],
     last     |-> [f \in TempFiles |-> [by |-> "none", content |-> "none"]]]

\* The host versions the version manifest may name.
Versions == {1, 2, 3}

\* No attempt is syncing or injecting; no version directory is on disk.
NoPin ==
    [remote |-> 1, hooks |-> [v \in Versions |-> "absent"], at |-> "return",
     synced |-> 0, version_info |-> 0, ran |-> 0, result |-> "none"]

\* The injector has not been run: no exit status, nothing on stderr.
NoInjector ==
    [spawned |-> FALSE, status |-> 0, stderr |-> "",
     returned |-> [ok |-> FALSE, error |-> "none", detail |-> ""]]

LaunchInit ==
    /\ injector = NoInjector
    /\ attempt = 0
    /\ config = [enable_dalamud |-> FALSE, injection_delay |-> default_injection_delay]
    /\ pc = "Idle"
    /\ at = "return"
    /\ metrics = << >>
    /\ result = NoResult
    /\ sid = NoSid
    /\ args = NoArgs
    /\ stored = "unbound"
    /\ body = NoBody
    /\ issued = 0
    /\ trace = << >>
    /\ handed = << >>
    /\ needs = [dalamud |-> FALSE, asset |-> FALSE]
    /\ dl = NoDownload
    /\ handles = NoHandles

\* The state after construction: no launch attempted, the sync and the pure
\* functions not in use.
Init ==
    /\ LaunchInit
    /\ disk = NoDisk
    /\ sync = NoSync
    /\ race = NoRace
    /\ pin = NoPin
    /\ pure = NoCall

\* The shell invokes launch_game(config): a fresh frame, nothing carried over
\* from an earlier attempt except what the outside world remembers.
launch_game ==
    /\ pc \in {"Idle", "Done", "Failed"}
    /\ attempt < MaxAttempts
    /\ \E c \in LaunchConfig :
         /\ config' = c
         /\ pc' = NextStage("Idle", c)
         /\ at' = EntryPoint(NextStage("Idle", c))
    /\ attempt' = attempt + 1
    /\ metrics' = << >>
    /\ result' = NoResult
    /\ sid' = NoSid
    /\ args' = NoArgs
    /\ stored' = "unbound"
    /\ body' = NoBody
    /\ trace' = << >>
    /\ handed' = << >>
    /\ needs' = [dalamud |-> FALSE, asset |-> FALSE]
    /\ dl' = NoDownload
    /\ handles' = NoHandles
    /\ injector' = NoInjector
    /\ UNCHANGED issued
    /\ UNCHANGED << syncVars, pure >>

\* Path preparation: `if !Path::new(&game_path).exists() { return Err(..) }`.
PathPrepare ==
    /\ pc = "PathPrepare" /\ at = "exists"
    /\ \E exists \in BOOLEAN :
         IF exists THEN Advance ELSE Fail("Game executable not found")
    /\ UNCHANGED << attempt, config, sid, args, stored, body, issued, trace,
                    handed, needs, dl, handles >>
    /\ UNCHANGED << syncVars, pure >>
    /\ UNCHANGED injector

\* --------------------------------------------- get_stored, get_session_id

\* What the login landing page answers: an HTTP status and a page that has
\* or has not the hidden input named _STORED_.
LandingResponses == [status : {200, 503}, stored : {"absent", "abc123"}]

\* get_stored's regex on the page text: the captured value, or no match.
\* The status of the response is not looked at.
ExtractStoredLenient(page) == [ok |-> TRUE, value |-> "none"]

ExtractStored(page) ==
    IF page.stored = "absent"
      THEN [ok |-> FALSE, value |-> "none"]
      ELSE [ok |-> TRUE, value |-> page.stored]

\* The text of a login.send response: "SID" is the marker `sid,`, "TERMS"
\* the marker `,terms`, "NL" a line break, "x" any other text.
LoginBodies(n) ==
    { << Lit("x"), Lit("SID"), Tok(n), Lit("TERMS"), Lit("x") >>,
      << Lit("SID"), Tok(n), Lit("TERMS") >>,
      << Lit("SID"), Tok(n), Lit("TERMS"), Lit("x"), Lit("TERMS") >>,
      << Lit("SID"), Tok(n), Lit("NL"), Lit("TERMS") >>,
      << Lit("TERMS"), Lit("x"), Lit("SID") >>,
      << Lit("x") >> }

\* The matches of `sid,(?P<sid>.*),terms` in text: `.` does not match a line
\* break, so the two markers are on one line.
SidMatches(text) ==
    { m \in (1..Len(text)) \X (1..Len(text)) :
        /\ m[1] < m[2]
        /\ text[m[1]] = Lit("SID")
        /\ text[m[2]] = Lit("TERMS")
        /\ \A k \in (m[1] + 1)..(m[2] - 1) : text[k] # Lit("NL") }

\* Faulty variant of ExtractSid: no match yields Ok with an empty session id
\* (the capture defaulted instead of the None arm).
ExtractSidLenient(text) ==
    LET ms == SidMatches(text) IN
    IF ms = {} THEN [ok |-> TRUE, sid |-> << >>]
    ELSE LET i == CHOOSE a \in {m[1] : m \in ms} : \A m \in ms : a <= m[1]
             j == CHOOSE b \in {m[2] : m \in ms} : \A m \in ms : m[2] <= b
         IN  [ok |-> TRUE, sid |-> SubSeq(text, i + 1, j - 1)]

\* re.captures(&body): the leftmost match, its `.*` as long as possible.
ExtractSid(text) ==
    LET ms == SidMatches(text) IN
    IF ms = {} THEN [ok |-> FALSE, sid |-> << >>]
    ELSE LET i == CHOOSE a \in {m[1] : m \in ms} : \A m \in ms : a <= m[1]
             j == CHOOSE b \in {m[2] : m \in ms} : \A m \in ms : m[2] <= b
         IN  [ok |-> TRUE, sid |-> SubSeq(text, i + 1, j - 1)]

\* get_stored: GET the landing page, read its text, extract _STORED_.
get_stored ==
    /\ pc = "SessionAcquire" /\ at = "get_stored"
    /\ trace' = Append(trace, "GET login/top")
    /\ \/ \E e \in {"Failed to get stored value", "Failed to read response"} :
            /\ Fail(e)
            /\ UNCHANGED stored
       \/ \E page \in LandingResponses :
            LET m == ExtractStored(page) IN
            IF m.ok
              THEN /\ stored' = m.value
                   /\ at' = "login_send"
                   /\ UNCHANGED << pc, metrics, result >>
              ELSE /\ Fail("Could not find _STORED_ value")
                   /\ UNCHANGED stored
    /\ UNCHANGED << attempt, config, sid, args, body, issued, handed, needs, dl, handles >>
    /\ UNCHANGED << syncVars, pure >>
    /\ UNCHANGED injector

\* get_session_id: POST the form to login.send and read the response text.
\* The service answers every submission it receives with a token of its own.
login_send ==
    /\ pc = "SessionAcquire" /\ at = "login_send"
    /\ trace' = Append(trace, "POST login.send")
    /\ \/ /\ Fail("Failed to send login request")
          /\ UNCHANGED << body, issued >>
       \/ /\ Fail("Failed to read response")
          /\ issued' = issued + 1
          /\ UNCHANGED body
       \/ \E b \in LoginBodies(issued + 1) :
            /\ body' = b
            /\ issued' = issued + 1
            /\ at' = "parse"
            /\ UNCHANGED << pc, metrics, result >>
    /\ UNCHANGED << attempt, config, sid, args, stored, handed, needs, dl, handles >>
    /\ UNCHANGED << syncVars, pure >>
    /\ UNCHANGED injector

\* get_session_id: parse the response for the session id and return;
\* launch_game binds `sid` on Ok and returns Err otherwise.
parse_session_id ==
    /\ pc = "SessionAcquire" /\ at = "parse"
    /\ LET m == ExtractSid(body) IN
       IF m.ok
         THEN /\ sid' = m.sid
              /\ Advance
         ELSE /\ Fail("Failed to extract session ID")
              /\ UNCHANGED sid
    /\ UNCHANGED << attempt, config, args, stored, body, issued, trace, handed,
                    needs, dl, handles >>
    /\ UNCHANGED << syncVars, pure >>
    /\ UNCHANGED injector

\* Faulty variant of LaunchArgs: the first token ever issued is kept and
\* passed again.
LaunchArgsCached(c, s) == [DEV_TestSID |-> << Tok(1) >>]

\* The launch-argument string launch_game formats: the session id is the
\* value of DEV.TestSID.
LaunchArgs(c, s) == [DEV_TestSID |-> s]

\* Arguments preparation: `let args = format!(..., sid, ...)`.
ArgsPrepared ==
    /\ pc = "ArgsPrepared" /\ at = "format"
    /\ args' = LaunchArgs(config, sid)
    /\ Advance
    /\ UNCHANGED << attempt, config, sid, stored, body, issued, trace, handed,
                    needs, dl, handles >>
    /\ UNCHANGED << syncVars, pure >>
    /\ UNCHANGED injector

\* ------------------------------------------------ check_dalamud_version

\* check_dalamud_version: GET the version manifest and parse it.  Called at
\* the start of setup_dalamud and again at the start of inject_dalamud.
check_dalamud_version ==
    /\ pc \in {"AddonSync", "LaunchInjected"} /\ at = "check_dalamud_version"
    /\ trace' = Append(trace, "GET VersionInfo")
    /\ \/ \E e \in {"Failed to get version info", "Failed to parse version info"} :
            Fail(e)
       \/ /\ at' = IF pc = "AddonSync" THEN "check_local" ELSE "sleep"
          /\ UNCHANGED << pc, metrics, result >>
    /\ UNCHANGED << attempt, config, sid, args, stored, body, issued, handed,
                    needs, dl, handles >>
    /\ UNCHANGED << syncVars, pure >>
    /\ UNCHANGED injector

\* ---------------------------------------------------------- download_file

\* Faulty variant of LoopGuard: the bound is off by one.
LoopGuardInclusive(retries) == retries <= MAX_RETRIES

\* `while retries < MAX_RETRIES`
LoopGuard(retries) == retries < MAX_RETRIES

\* What the server answers to the next request of the frame d.
Response(d) == IF d.requests < d.redirects THEN "redirect" ELSE d.final

\* A failing fs::write has two outcomes: "write_error" when the file could
\* not be opened, "write_error_truncated" when it was opened (and so
\* truncated) and the writing failed.
FinalResponses == {"success", "status_error", "redirect_no_location",
                   "redirect_bad_location", "transport_error", "bytes_error",
                   "write_error", "write_error_truncated"}

\* What lies at the destination path before the call: nothing, or a file
\* an earlier run left there.
DestinationFiles == {"none", "stale"}

\* The chains of answers a download can meet: up to one redirection more
\* than the loop can follow, then a last answer.
Scripts ==
    [redirects : 0..(MAX_RETRIES + 1), final : FinalResponses, before : DestinationFiles]

\* Faulty variant of DownloadStep: an error status is retried like a
\* redirect.
DownloadStepRetryOnError(d, resp) ==
    LET r == [d EXCEPT !.requests = @ + 1] IN
    CASE resp = "transport_error" -> [r EXCEPT !.status = "Failed to download file"]
      [] resp = "redirect" -> [r EXCEPT !.retries = @ + 1]
      [] resp = "redirect_bad_location" -> [r EXCEPT !.status = "Invalid redirect URL"]
      [] resp = "success" -> [r EXCEPT !.status = "ok", !.dest = "bytes"]
      [] resp = "bytes_error" -> [r EXCEPT !.status = "Failed to get response bytes"]
      [] resp = "write_error" -> [r EXCEPT !.status = "Failed to write file"]
      [] resp = "write_error_truncated" ->
            [r EXCEPT !.status = "Failed to write file", !.dest = "partial"]
      [] OTHER -> [r EXCEPT !.retries = @ + 1]

\* Faulty variant of DownloadStep: a redirection is counted and followed
\* whether or not it carries a location header.
DownloadStepFollowBareRedirect(d, resp) ==
    LET r == [d EXCEPT !.requests = @ + 1] IN
    CASE resp = "transport_error" -> [r EXCEPT !.status = "Failed to download file"]
      [] resp = "redirect" -> [r EXCEPT !.retries = @ + 1]
      [] resp = "redirect_no_location" -> [r EXCEPT !.retries = @ + 1]
      [] resp = "redirect_bad_location" -> [r EXCEPT !.status = "Invalid redirect URL"]
      [] resp = "success" -> [r EXCEPT !.status = "ok", !.dest = "bytes"]
      [] resp = "bytes_error" -> [r EXCEPT !.status = "Failed to get response bytes"]
      [] resp = "write_error" -> [r EXCEPT !.status = "Failed to write file"]
      [] resp = "write_error_truncated" ->
            [r EXCEPT !.status = "Failed to write file", !.dest = "partial"]
      [] OTHER -> [r EXCEPT !.status = "Download failed with status"]

\* Faulty variant of DownloadStep: the body of any answer that is not a
\* redirect is written to the destination before the status is looked at.
DownloadStepSaveErrorBody(d, resp) ==
    LET r == [d EXCEPT !.requests = @ + 1] IN
    CASE resp = "transport_error" -> [r EXCEPT !.status = "Failed to download file"]
      [] resp = "redirect" -> [r EXCEPT !.retries = @ + 1]
      [] resp = "redirect_bad_location" -> [r EXCEPT !.status = "Invalid redirect URL"]
      [] resp = "success" -> [r EXCEPT !.status = "ok", !.dest = "bytes"]
      [] resp = "bytes_error" -> [r EXCEPT !.status = "Failed to get response bytes"]
      [] resp = "write_error" -> [r EXCEPT !.status = "Failed to write file"]
      [] resp = "write_error_truncated" ->
            [r EXCEPT !.status = "Failed to write file", !.dest = "partial"]
      [] OTHER -> [r EXCEPT !.status = "Download failed with status", !.dest = "bytes"]

\* One pass through the loop body with the response resp, up to `continue`
\* or `return`.  Only `fs::write(path, bytes)` touches the destination.
DownloadStep(d, resp) ==
    LET r == [d EXCEPT !.requests = @ + 1] IN
    CASE resp = "transport_error" -> [r EXCEPT !.status = "Failed to download file"]
      [] resp = "redirect" -> [r EXCEPT !.retries = @ + 1]
      [] resp = "redirect_bad_location" -> [r EXCEPT !.status = "Invalid redirect URL"]
      [] resp = "success" -> [r EXCEPT !.status = "ok", !.dest = "bytes"]
      [] resp = "bytes_error" -> [r EXCEPT !.status = "Failed to get response bytes"]
      [] resp = "write_error" -> [r EXCEPT !.status = "Failed to write file"]
      [] resp = "write_error_truncated" ->
            [r EXCEPT !.status = "Failed to write file", !.dest = "partial"]
      [] OTHER -> [r EXCEPT !.status = "Download failed with status"]

\* The loop condition after a pass: leaving the loop is the last statement,
\* Err("Too many redirects ...").
LoopExit(d) ==
    IF d.status = "running" /\ ~LoopGuard(d.retries)
      THEN [d EXCEPT !.status = "Too many redirects"]
      ELSE d

\* The frame of a download_file call that has just been entered.
EnterDownload(package, script) ==
    [for |-> package, redirects |-> script.redirects, final |-> script.final,
     retries |-> 0, requests |-> 0, status |-> "running",
     before |-> script.before, dest |-> script.before]

\* download_file: one request and what the loop does with its response.
download_file ==
    /\ pc = "AddonSync" /\ at = "download_file"
    /\ dl.status = "running"
    /\ trace' = Append(trace, "GET download")
    /\ dl' = LoopExit(DownloadStep(dl, Response(dl)))
    /\ UNCHANGED << attempt, config, pc, at, metrics, result, sid, args, stored,
                    body, issued, handed, needs, handles >>
    /\ UNCHANGED << syncVars, pure >>
    /\ UNCHANGED injector

\* download_file returns to setup_dalamud, which propagates an Err with `?`.
download_file_return ==
    /\ pc = "AddonSync" /\ at = "download_file"
    /\ dl.status # "running"
    /\ IF dl.status = "ok"
         THEN /\ at' = IF dl.for = "dalamud" THEN "install_dalamud" ELSE "install_assets"
              /\ UNCHANGED << pc, metrics, result >>
         ELSE Fail(dl.status)
    /\ UNCHANGED << attempt, config, sid, args, stored, body, issued, trace,
                    handed, needs, dl, handles >>
    /\ UNCHANGED << syncVars, pure >>
    /\ UNCHANGED injector

\* ---------------------------------------------------------- setup_dalamud

\* The statement setup_dalamud runs after `point`, given its two flags.
SyncNext(point, n) ==
    CASE point = "check_asset_version" ->
             IF n.dalamud \/ n.asset THEN "create_dirs" ELSE "verify"
      [] point = "create_dirs" ->
             IF n.dalamud THEN "update_dalamud" ELSE "update_assets"
      [] point = "install_dalamud" ->
             IF n.asset THEN "update_assets" ELSE "verify"
      [] OTHER -> "verify"

\* The version directory: absent, a valid installation, one that fails the
\* integrity check, or one whose files cannot be read or parsed.
check_local ==
    /\ pc = "AddonSync" /\ at = "check_local"
    /\ \/ \E e \in {"Failed to read hashes.json", "Failed to parse hashes.json",
                    "Failed to read file"} :
            /\ Fail(e)
            /\ UNCHANGED needs
       \/ \E dir \in {"absent", "valid", "invalid"} :
            /\ needs' = [needs EXCEPT !.dalamud = (dir # "valid")]
            /\ at' = "check_asset_version"
            /\ UNCHANGED << pc, metrics, result >>
    /\ UNCHANGED << attempt, config, sid, args, stored, body, issued, trace,
                    handed, dl, handles >>
    /\ UNCHANGED << syncVars, pure >>
    /\ UNCHANGED injector

\* check_asset_version, then `current_asset_ver < asset_info.version`.
check_asset_version ==
    /\ pc = "AddonSync" /\ at = "check_asset_version"
    /\ trace' = Append(trace, "GET Asset/Meta")
    /\ \/ \E e \in {"Failed to get asset info", "Failed to parse asset info"} :
            /\ Fail(e)
            /\ UNCHANGED needs
       \/ \E newer \in BOOLEAN :
            /\ needs' = [needs EXCEPT !.asset = newer]
            /\ at' = SyncNext(at, needs')
            /\ UNCHANGED << pc, metrics, result >>
    /\ UNCHANGED << attempt, config, sid, args, stored, body, issued, handed,
                    dl, handles >>
    /\ UNCHANGED << syncVars, pure >>
    /\ UNCHANGED injector

\* `if needs_dalamud_update || needs_asset_update`: create the directories.
create_dirs ==
    /\ pc = "AddonSync" /\ at = "create_dirs"
    /\ \/ \E e \in {"Failed to create Dalamud base directory",
                    "Failed to create directory"} :
            Fail(e)
       \/ /\ at' = SyncNext(at, needs)
          /\ UNCHANGED << pc, metrics, result >>
    /\ UNCHANGED << attempt, config, sid, args, stored, body, issued, trace,
                    handed, needs, dl, handles >>
    /\ UNCHANGED << syncVars, pure >>
    /\ UNCHANGED injector

\* `if needs_dalamud_update`: create Hooks and call download_file.
update_dalamud ==
    /\ pc = "AddonSync" /\ at = "update_dalamud"
    /\ \/ /\ Fail("Failed to create Hooks directory")
          /\ UNCHANGED dl
       \/ \E script \in Scripts :
            /\ dl' = EnterDownload("dalamud", script)
            /\ at' = "download_file"
            /\ UNCHANGED << pc, metrics, result >>
    /\ UNCHANGED << attempt, config, sid, args, stored, body, issued, trace,
                    handed, needs, handles >>
    /\ UNCHANGED << syncVars, pure >>
    /\ UNCHANGED injector

\* Create the version directory, extract, remove the archive, write
\* version.json.
install_dalamud ==
    /\ pc = "AddonSync" /\ at = "install_dalamud"
    /\ \/ \E e \in {"Failed to create version directory", "Failed to extract zip",
                    "Failed to remove temp file", "Failed to write version info"} :
            Fail(e)
       \/ /\ at' = SyncNext(at, needs)
          /\ UNCHANGED << pc, metrics, result >>
    /\ UNCHANGED << attempt, config, sid, args, stored, body, issued, trace,
                    handed, needs, dl, handles >>
    /\ UNCHANGED << syncVars, pure >>
    /\ UNCHANGED injector

\* `if needs_asset_update`: call download_file for the asset package.
update_assets ==
    /\ pc = "AddonSync" /\ at = "update_assets"
    /\ \E script \in Scripts :
         /\ dl' = EnterDownload("asset", script)
         /\ at' = "download_file"
    /\ UNCHANGED << attempt, config, pc, metrics, result, sid, args, stored,
                    body, issued, trace, handed, needs, handles >>
    /\ UNCHANGED << syncVars, pure >>
    /\ UNCHANGED injector

\* Extract, remove the archive, check every asset, write asset.ver.
install_assets ==
    /\ pc = "AddonSync" /\ at = "install_assets"
    /\ \/ \E e \in {"Failed to extract zip", "Failed to remove temp file",
                    "Missing required asset file", "Hash verification failed",
                    "Failed to write asset version"} :
            Fail(e)
       \/ /\ at' = "verify"
          /\ UNCHANGED << pc, metrics, result >>
    /\ UNCHANGED << attempt, config, sid, args, stored, body, issued, trace,
                    handed, needs, dl, handles >>
    /\ UNCHANGED << syncVars, pure >>
    /\ UNCHANGED injector

\* Verify the injector and the FASM library, copy the fonts, return Ok.
verify_critical_files ==
    /\ pc = "AddonSync" /\ at = "verify"
    /\ \/ \E e \in {"Dalamud injector not found", "FASM DLL not found"} : Fail(e)
       \/ Advance
    /\ UNCHANGED << attempt, config, sid, args, stored, body, issued, trace,
                    handed, needs, dl, handles >>
    /\ UNCHANGED << syncVars, pure >>
    /\ UNCHANGED injector

\* ------------------------------------------ create_suspended_game_process

\* Process ids the operating system gives a new process: never zero.
Pids == {1234, 5678}

\* Faulty variant of ProcNext: the process id is read after the handles
\* have been closed.
ProcNextPidAfterClose(point, ok) ==
    CASE point = "InitializeSecurityDescriptor" ->
             IF ok THEN "SetSecurityDescriptorDacl" ELSE "Err"
      [] point = "SetSecurityDescriptorDacl" -> IF ok THEN "CreateProcessW" ELSE "Err"
      [] point = "CreateProcessW" -> IF ok THEN "ResumeThread" ELSE "Err"
      [] point = "ResumeThread" -> IF ok THEN "CloseThread" ELSE "FailCloseThread"
      [] point = "FailCloseThread" -> "FailCloseProcess"
      [] point = "FailCloseProcess" -> "Err"
      [] point = "CloseThread" -> "CloseProcess"
      [] point = "CloseProcess" -> "GetProcessId"
      [] OTHER -> "Ok"

\* Faulty variant of ProcNext: the resume-failure path returns without
\* closing the handles.
ProcNextLeakOnResumeFailure(point, ok) ==
    CASE point = "InitializeSecurityDescriptor" ->
             IF ok THEN "SetSecurityDescriptorDacl" ELSE "Err"
      [] point = "SetSecurityDescriptorDacl" -> IF ok THEN "CreateProcessW" ELSE "Err"
      [] point = "CreateProcessW" -> IF ok THEN "GetProcessId" ELSE "Err"
      [] point = "GetProcessId" -> "ResumeThread"
      [] point = "ResumeThread" -> IF ok THEN "CloseThread" ELSE "Err"
      [] point = "FailCloseThread" -> "FailCloseProcess"
      [] point = "FailCloseProcess" -> "Err"
      [] point = "CloseThread" -> "CloseProcess"
      [] OTHER -> "Ok"

\* The statement create_suspended_game_process runs after the call at
\* `point` returned (ok: the call succeeded): its calls in program order.
ProcNext(point, ok) ==
    CASE point = "InitializeSecurityDescriptor" ->
             IF ok THEN "SetSecurityDescriptorDacl" ELSE "Err"
      [] point = "SetSecurityDescriptorDacl" -> IF ok THEN "CreateProcessW" ELSE "Err"
      [] point = "CreateProcessW" -> IF ok THEN "GetProcessId" ELSE "Err"
      [] point = "GetProcessId" -> "ResumeThread"
      [] point = "ResumeThread" -> IF ok THEN "CloseThread" ELSE "FailCloseThread"
      [] point = "FailCloseThread" -> "FailCloseProcess"
      [] point = "FailCloseProcess" -> "Err"
      [] point = "CloseThread" -> "CloseProcess"
      [] OTHER -> "Ok"

\* What the direct launch leaves alone besides the frame of the function.
ProcFrame == << attempt, config, pc, metrics, result, sid, args, stored, body,
                issued, needs, dl >>

InitializeSecurityDescriptor ==
    /\ pc = "LaunchDirect" /\ at = "InitializeSecurityDescriptor"
    /\ \E ok \in BOOLEAN :
         /\ at' = ProcNext(at, ok)
         /\ handles' = IF ok THEN handles
                       ELSE [handles EXCEPT !.err = "Failed to initialize security descriptor"]
    /\ UNCHANGED << ProcFrame, trace, handed >>
    /\ UNCHANGED << syncVars, pure >>
    /\ UNCHANGED injector

SetSecurityDescriptorDacl ==
    /\ pc = "LaunchDirect" /\ at = "SetSecurityDescriptorDacl"
    /\ \E ok \in BOOLEAN :
         /\ at' = ProcNext(at, ok)
         /\ handles' = IF ok THEN handles
                       ELSE [handles EXCEPT !.err = "Failed to set security descriptor DACL"]
    /\ UNCHANGED << ProcFrame, trace, handed >>
    /\ UNCHANGED << syncVars, pure >>
    /\ UNCHANGED injector

\* CreateProcessW(game_path, args, ..., CREATE_SUSPENDED, ...): on success
\* process_info holds an open handle to the process and one to its thread.
CreateProcessW ==
    /\ pc = "LaunchDirect" /\ at = "CreateProcessW"
    /\ trace' = Append(trace, "CreateProcessW")
    /\ handed' = Append(handed, [by |-> "launcher", args |-> args])
    /\ \/ /\ at' = ProcNext(at, FALSE)
          /\ handles' = [handles EXCEPT !.err = "Failed to create process"]
       \/ \E p \in Pids :
            /\ at' = ProcNext(at, TRUE)
            /\ handles' = [handles EXCEPT !.hProcess = "open", !.hThread = "open",
                                          !.ospid = p]
    /\ UNCHANGED ProcFrame
    /\ UNCHANGED << syncVars, pure >>
    /\ UNCHANGED injector

\* GetProcessId(process_info.hProcess): the id of the process behind an open
\* handle, zero for a handle that is not open.
GetProcessId ==
    /\ pc = "LaunchDirect" /\ at = "GetProcessId"
    /\ handles' = [handles EXCEPT
                     !.pid = IF handles.hProcess = "open" THEN handles.ospid ELSE 0]
    /\ at' = ProcNext(at, TRUE)
    /\ UNCHANGED << ProcFrame, trace, handed >>
    /\ UNCHANGED << syncVars, pure >>
    /\ UNCHANGED injector

\* ResumeThread(process_info.hThread): u32::MAX is the failure.
ResumeThread ==
    /\ pc = "LaunchDirect" /\ at = "ResumeThread"
    /\ trace' = Append(trace, "ResumeThread")
    /\ \E ok \in (IF handles.hThread = "open" THEN BOOLEAN ELSE {FALSE}) :
         /\ at' = ProcNext(at, ok)
         /\ handles' = IF ok THEN handles
                       ELSE [handles EXCEPT !.err = "Failed to resume process"]
    /\ UNCHANGED << ProcFrame, handed >>
    /\ UNCHANGED << syncVars, pure >>
    /\ UNCHANGED injector

\* The handle a CloseHandle statement closes.
HandleAt(point) ==
    IF point \in {"CloseThread", "FailCloseThread"} THEN "hThread" ELSE "hProcess"

CloseHandle ==
    /\ pc = "LaunchDirect"
    /\ at \in {"CloseThread", "CloseProcess", "FailCloseThread", "FailCloseProcess"}
    /\ handles' = [handles EXCEPT ![HandleAt(at)] = "closed",
                                  !.closed[HandleAt(at)] = @ + 1]
    /\ at' = ProcNext(at, TRUE)
    /\ UNCHANGED << ProcFrame, trace, handed >>
    /\ UNCHANGED << syncVars, pure >>
    /\ UNCHANGED injector

\* create_suspended_game_process returns Ok(pid) or Err(err) to launch_game.
create_suspended_game_process_return ==
    /\ pc = "LaunchDirect" /\ at \in {"Ok", "Err"}
    /\ IF at = "Ok" THEN Advance ELSE Fail(handles.err)
    /\ UNCHANGED << attempt, config, sid, args, stored, body, issued, trace,
                    handed, needs, dl, handles >>
    /\ UNCHANGED << syncVars, pure >>
    /\ UNCHANGED injector

\* --------------------------------------------------------- inject_dalamud

\* `if config.injection_delay > 0 { tokio::time::sleep(..).await }`
injection_delay ==
    /\ pc = "LaunchInjected" /\ at = "sleep"
    /\ trace' = IF config.injection_delay > 0 THEN Append(trace, "sleep") ELSE trace
    /\ at' = "start_info"
    /\ UNCHANGED << attempt, config, pc, metrics, result, sid, args, stored, body,
                    issued, handed, needs, dl, handles >>
    /\ UNCHANGED << syncVars, pure >>
    /\ UNCHANGED injector

\* Build the start info (get_game_version reads ffxivgame.ver) and check
\* that the injector executable exists.
prepare_injection ==
    /\ pc = "LaunchInjected" /\ at = "start_info"
    /\ \/ \E e \in {"Failed to read game version", "Dalamud injector not found"} :
            Fail(e)
       \/ /\ at' = "injector"
          /\ UNCHANGED << pc, metrics, result >>
    /\ UNCHANGED << attempt, config, sid, args, stored, body, issued, trace,
                    handed, needs, dl, handles >>
    /\ UNCHANGED << syncVars, pure >>
    /\ UNCHANGED injector

\* The game arguments inject_dalamud formats from its `sid` parameter and
\* passes after the `--` separator.
InjectorGameArgs(c, s) == [DEV_TestSID |-> s]

\* What the injector process ends with: its exit status and what it wrote
\* to standard error.
InjectorOutputs == [status : {0, 1}, stderr : {"", "boom"}]

\* `if !output.status.success() { return Err(format!("Injector failed: {}",
\* error)) }` with error the text of output.stderr, else Ok.
InjectorResultIgnoreStatus(out) == [ok |-> TRUE, error |-> "none", detail |-> ""]

InjectorResult(out) ==
    IF out.status # 0
      THEN [ok |-> FALSE, error |-> "Injector failed", detail |-> out.stderr]
      ELSE [ok |-> TRUE, error |-> "none", detail |-> ""]

\* command.output(): run Dalamud.Injector.exe in entrypoint mode; it spawns
\* the game itself.
run_injector ==
    /\ pc = "LaunchInjected" /\ at = "injector"
    /\ trace' = Append(trace, "Dalamud.Injector.exe")
    /\ handed' = Append(handed, [by |-> "injector", args |-> InjectorGameArgs(config, sid)])
    /\ \/ /\ Fail("Failed to run injector")
          /\ UNCHANGED injector
       \/ \E out \in InjectorOutputs :
            LET r == InjectorResult(out) IN
            /\ injector' = [spawned |-> TRUE, status |-> out.status,
                            stderr |-> out.stderr, returned |-> r]
            /\ IF r.ok THEN Advance ELSE Fail(r.error)
    /\ UNCHANGED << attempt, config, sid, args, stored, body, issued, needs, dl,
                    handles >>
    /\ UNCHANGED << syncVars, pure >>

Next ==
    \/ launch_game
    \/ PathPrepare
    \/ get_stored
    \/ login_send
    \/ parse_session_id
    \/ ArgsPrepared
    \/ check_dalamud_version
    \/ download_file
    \/ download_file_return
    \/ check_local
    \/ check_asset_version
    \/ create_dirs
    \/ update_dalamud
    \/ install_dalamud
    \/ update_assets
    \/ install_assets
    \/ verify_critical_files
    \/ InitializeSecurityDescriptor
    \/ SetSecurityDescriptorDacl
    \/ CreateProcessW
    \/ GetProcessId
    \/ ResumeThread
    \/ CloseHandle
    \/ create_suspended_game_process_return
    \/ injection_delay
    \/ prepare_injection
    \/ run_injector

Spec == Init /\ [][Next]_vars

\* ---- setup_dalamud over the disk ----------------------------------------

\* One round of `for (file, hash) in hashes`: Ok(false) for an absent file,
\* `fs::read(..)?` for an unreadable one, Ok(false) when the lowercase hex
\* digest differs from the recorded hash, otherwise the next round.
IntegrityOfFile(dir, f) ==
    IF dir.files[f] = "absent" THEN "false"
    ELSE IF dir.files[f] = "unreadable" THEN "Failed to read file"
    ELSE IF Sha1Hex(dir.files[f]) # dir.hashes[f] THEN "false"
    ELSE "continue"

\* The loop over the entries in the order the HashMap yields them.
RECURSIVE IntegrityLoop(_, _)
IntegrityLoop(dir, order) ==
    IF order = << >> THEN "true"
    ELSE LET r == IntegrityOfFile(dir, Head(order))
         IN  IF r = "continue" THEN IntegrityLoop(dir, Tail(order)) ELSE r

\* The entries of hashes.json.
Listed(dir) == {f \in Files : dir.hashes[f] # NoHash}

\* A HashMap iterates in an order of its own: every order of the entries.
IterationOrders(S) ==
    {o \in [1..Cardinality(S) -> S] : \A i, j \in 1..Cardinality(S) : i # j => o[i] # o[j]}

\* check_dalamud_integrity(path): the results it can return, "true" and
\* "false" for Ok(true) and Ok(false), an error message for Err.
check_dalamud_integrity(dir) ==
    IF dir.manifest = "missing" THEN {"false"}
    ELSE IF dir.manifest = "unreadable" THEN {"Failed to read hashes.json"}
    ELSE IF dir.manifest = "malformed" THEN {"Failed to parse hashes.json"}
    ELSE {IntegrityLoop(dir, o) : o \in IterationOrders(Listed(dir))}

\* `archive.extract(extract_path)`: every entry of the archive is written,
\* what the archive does not hold stays as it was.
ExtractDalamud(dir, pkg) ==
    [exists   |-> TRUE,
     manifest |-> IF pkg.manifest = "missing" THEN dir.manifest ELSE pkg.manifest,
     hashes   |-> IF pkg.manifest = "missing" THEN dir.hashes ELSE pkg.hashes,
     files    |-> [f \in Files |-> IF pkg.files[f] = "absent" THEN dir.files[f]
                                                               ELSE pkg.files[f]],
     injector |-> dir.injector \/ pkg.injector,
     fasm     |-> dir.fasm \/ pkg.fasm,
     marker   |-> dir.marker]

ExtractAssets(assets, pkg) ==
    [a \in Assets |-> IF pkg[a] = "absent" THEN assets[a] ELSE pkg[a]]

\* `read_to_string(..).unwrap_or_else(|_| "0").parse::<i32>().unwrap_or(0)`.
ParseAssetVer(file) == IF file.state = "int" THEN file.n ELSE 0

\* `let needs_asset_update = current_asset_ver < asset_info.version`.
NeedsAssetUpdateInclusive(current, remote) == current <= remote

\* Faulty variant of NeedsAssetUpdate: an update whenever the versions
\* differ, also towards an older remote version.
NeedsAssetUpdateOnDifference(current, remote) == current # remote

NeedsAssetUpdate(current, remote) == current < remote

\* One round of `for asset in &asset_info.assets`.
VerifyAsset(assets, info, a) ==
    IF assets[a] = "absent" THEN "Missing required asset file"
    ELSE IF info.hashes[a] = NoHash THEN "continue"
    ELSE IF assets[a] = "unreadable" THEN "Failed to read file"
    ELSE IF to_uppercase(Sha1Hex(assets[a])) # info.hashes[a]
         THEN "Hash verification failed"
    ELSE "continue"

\* `asset_info.assets` is a Vec: the loop runs in the order of the manifest.
AssetOrder == << "font.otf", "icon.png" >>

RECURSIVE VerifyAssets(_, _, _)
VerifyAssets(assets, info, order) ==
    IF order = << >> THEN "Ok"
    ELSE LET r == VerifyAsset(assets, info, Head(order))
         IN  IF r = "continue" THEN VerifyAssets(assets, info, Tail(order)) ELSE r

\* The critical files checked before Ok: Dalamud.Injector.exe, FASM{X64}.DLL.
CriticalFiles(dir) ==
    IF ~dir.injector THEN "Dalamud injector not found"
    ELSE IF ~dir.fasm THEN "FASM DLL not found"
    ELSE "Ok"

\* The statement setup_dalamud goes to when the one at `point` returned
\* without an error, f being its frame.
SetupNextVersionFirst(point, f) ==
    CASE point = "check_dalamud_version" -> "check_dalamud_integrity"
      [] point = "check_dalamud_integrity" -> "check_asset_version"
      [] point = "check_asset_version" ->
            IF f.needs_dalamud_update \/ f.needs_asset_update
              THEN "create_dirs"
              ELSE "critical_files"
      [] point = "create_dirs" ->
            IF f.needs_dalamud_update THEN "download_dalamud" ELSE "download_assets"
      [] point = "download_dalamud" -> "extract_dalamud"
      [] point = "extract_dalamud" -> "remove_dalamud_temp"
      [] point = "remove_dalamud_temp" -> "write_version_json"
      [] point = "write_version_json" ->
            IF f.needs_asset_update THEN "download_assets" ELSE "critical_files"
      [] point = "download_assets" -> "extract_assets"
      [] point = "extract_assets" -> "remove_asset_temp"
      [] point = "remove_asset_temp" -> "write_asset_ver"
      [] point = "write_asset_ver" -> "verify_assets"
      [] point = "verify_assets" -> "critical_files"
      [] point = "critical_files" -> "return"

SetupNextTrustFreshInstall(point, f) ==
    CASE point = "check_dalamud_version" -> "check_dalamud_integrity"
      [] point = "check_dalamud_integrity" -> "check_asset_version"
      [] point = "check_asset_version" ->
            IF f.needs_dalamud_update \/ f.needs_asset_update
              THEN "create_dirs"
              ELSE "critical_files"
      [] point = "create_dirs" ->
            IF f.needs_dalamud_update THEN "download_dalamud" ELSE "download_assets"
      [] point = "download_dalamud" -> "extract_dalamud"
      [] point = "extract_dalamud" -> "remove_dalamud_temp"
      [] point = "remove_dalamud_temp" -> "write_version_json"
      [] point = "write_version_json" ->
            IF f.needs_asset_update THEN "download_assets" ELSE "return"
      [] point = "download_assets" -> "extract_assets"
      [] point = "extract_assets" -> "remove_asset_temp"
      [] point = "remove_asset_temp" -> "verify_assets"
      [] point = "verify_assets" -> "write_asset_ver"
      [] point = "write_asset_ver" -> "critical_files"
      [] point = "critical_files" -> "return"

SetupNextAlwaysCreateDirs(point, f) ==
    CASE point = "check_dalamud_version" -> "check_dalamud_integrity"
      [] point = "check_dalamud_integrity" -> "check_asset_version"
      [] point = "check_asset_version" -> "create_dirs"
      [] point = "create_dirs" ->
            IF f.needs_dalamud_update THEN "download_dalamud"
            ELSE IF f.needs_asset_update THEN "download_assets"
            ELSE "critical_files"
      [] point = "download_dalamud" -> "extract_dalamud"
      [] point = "extract_dalamud" -> "remove_dalamud_temp"
      [] point = "remove_dalamud_temp" -> "write_version_json"
      [] point = "write_version_json" ->
            IF f.needs_asset_update THEN "download_assets" ELSE "critical_files"
      [] point = "download_assets" -> "extract_assets"
      [] point = "extract_assets" -> "remove_asset_temp"
      [] point = "remove_asset_temp" -> "verify_assets"
      [] point = "verify_assets" -> "write_asset_ver"
      [] point = "write_asset_ver" -> "critical_files"
      [] point = "critical_files" -> "return"

SetupNextMarkerFirst(point, f) ==
    CASE point = "check_dalamud_version" -> "check_dalamud_integrity"
      [] point = "check_dalamud_integrity" -> "check_asset_version"
      [] point = "check_asset_version" ->
            IF f.needs_dalamud_update \/ f.needs_asset_update
              THEN "create_dirs"
              ELSE "critical_files"
      [] point = "create_dirs" ->
            IF f.needs_dalamud_update THEN "download_dalamud" ELSE "download_assets"
      [] point = "download_dalamud" -> "write_version_json"
      [] point = "write_version_json" -> "extract_dalamud"
      [] point = "extract_dalamud" -> "remove_dalamud_temp"
      [] point = "remove_dalamud_temp" ->
            IF f.needs_asset_update THEN "download_assets" ELSE "critical_files"
      [] point = "download_assets" -> "extract_assets"
      [] point = "extract_assets" -> "remove_asset_temp"
      [] point = "remove_asset_temp" -> "verify_assets"
      [] point = "verify_assets" -> "write_asset_ver"
      [] point = "write_asset_ver" -> "critical_files"
      [] point = "critical_files" -> "return"

SetupNext(point, f) ==
    CASE point = "check_dalamud_version" -> "check_dalamud_integrity"
      [] point = "check_dalamud_integrity" -> "check_asset_version"
      [] point = "check_asset_version" ->
            IF f.needs_dalamud_update \/ f.needs_asset_update
              THEN "create_dirs"
              ELSE "critical_files"
      [] point = "create_dirs" ->
            IF f.needs_dalamud_update THEN "download_dalamud" ELSE "download_assets"
      [] point = "download_dalamud" -> "extract_dalamud"
      [] point = "extract_dalamud" -> "remove_dalamud_temp"
      [] point = "remove_dalamud_temp" -> "write_version_json"
      [] point = "write_version_json" ->
            IF f.needs_asset_update THEN "download_assets" ELSE "critical_files"
      [] point = "download_assets" -> "extract_assets"
      [] point = "extract_assets" -> "remove_asset_temp"
      [] point = "remove_asset_temp" -> "verify_assets"
      [] point = "verify_assets" -> "write_asset_ver"
      [] point = "write_asset_ver" -> "critical_files"
      [] point = "critical_files" -> "return"

\* The statement at `point` is done: f is the frame it leaves, call the
\* outside effect it had.  Reaching the end is `Ok(format!(..))`.
SetupStep(point, f, call) ==
    LET next == SetupNext(point, f) IN
    sync' = [f EXCEPT !.at = next,
                      !.result = IF next = "return" THEN "Ok" ELSE f.result,
                      !.trace = Append(f.trace, call)]

\* `?` or `return Err(..)`: setup_dalamud returns the error at once.
SetupFail(error) ==
    sync' = [sync EXCEPT !.at = "return", !.result = error]

\* The disks a run may start from.
Disks ==
    { [dir |-> d, assets |-> a, asset_ver |-> v,
       dalamud_temp |-> "none", asset_temp |-> "none", dirs |-> d.exists] :
        d \in VersionDirs, a \in {NoAssets, AssetPackages.good}, v \in AssetVerFiles }

InitSync ==
    /\ LaunchInit
    /\ pure = NoCall
    /\ sync = NoSync
    /\ race = NoRace
    /\ pin = NoPin
    /\ disk \in Disks

\* setup_dalamud(config) is called: a fresh frame over the disk as it is.
setup_dalamud ==
    /\ sync.at = "return"
    /\ sync.run < MaxRuns
    /\ sync' = [NoSync EXCEPT !.run = sync.run + 1,
                              !.at = "check_dalamud_version",
                              !.found = disk]
    /\ UNCHANGED << launchVars, disk, race, pin, pure >>

\* `let version_info = check_dalamud_version(&client, false).await?`.
setup_check_dalamud_version ==
    /\ sync.at = "check_dalamud_version"
    /\ \/ SetupStep("check_dalamud_version", sync, "GET VersionInfo")
       \/ SetupFail("Failed to get version info")
    /\ UNCHANGED << launchVars, disk, race, pin, pure >>

\* `needs_dalamud_update = if exists { !check_dalamud_integrity(..)? } else
\* { true }`.
setup_check_integrity ==
    /\ sync.at = "check_dalamud_integrity"
    /\ IF disk.dir.exists
         THEN \E r \in check_dalamud_integrity(disk.dir) :
                IF r \in {"true", "false"}
                  THEN SetupStep("check_dalamud_integrity",
                                 [sync EXCEPT !.needs_dalamud_update = (r = "false")],
                                 "check_dalamud_integrity")
                  ELSE SetupFail(r)
         ELSE SetupStep("check_dalamud_integrity",
                        [sync EXCEPT !.needs_dalamud_update = TRUE], "exists")
    /\ UNCHANGED << launchVars, disk, race, pin, pure >>

\* `check_asset_version(&client).await?`, the read of asset.ver and
\* `needs_asset_update`.
setup_check_asset_version ==
    /\ sync.at = "check_asset_version"
    /\ \/ \E info \in AssetInfos :
            LET current == ParseAssetVer(disk.asset_ver) IN
            SetupStep("check_asset_version",
                      [sync EXCEPT !.asset_info = info,
                                   !.current_asset_ver = current,
                                   !.needs_asset_update =
                                       NeedsAssetUpdate(current, info.version)],
                      "GET Asset/Meta")
       \/ SetupFail("Failed to get asset info")
    /\ UNCHANGED << launchVars, disk, race, pin, pure >>

\* `fs::create_dir_all(&base_path)` and the six root directories.
setup_create_dirs ==
    /\ sync.at = "create_dirs"
    /\ \/ /\ SetupStep("create_dirs", sync, "create_dir_all")
          /\ disk' = [disk EXCEPT !.dirs = TRUE]
       \/ /\ SetupFail("Failed to create directory")
          /\ UNCHANGED disk
    /\ UNCHANGED << launchVars, race, pin, pure >>

\* `create_dir_all(&hooks_dir)` and `download_file(.., &temp_path).await?`:
\* the server's archive lands in dalamud_temp.zip, or the download fails.
setup_download_dalamud ==
    /\ sync.at = "download_dalamud"
    /\ \/ \E pkg \in DOMAIN DalamudPackages :
            /\ SetupStep("download_dalamud", sync, "download dalamud")
            /\ disk' = [disk EXCEPT !.dalamud_temp = pkg]
       \/ /\ SetupFail("Failed to download file")
          /\ UNCHANGED disk
    /\ UNCHANGED << launchVars, race, pin, pure >>

\* `create_dir_all(&current_version_path)` and `extract_zip(..)?`.
setup_extract_dalamud ==
    /\ sync.at = "extract_dalamud"
    /\ \/ /\ SetupStep("extract_dalamud", sync, "extract dalamud")
          /\ disk' = [disk EXCEPT
                        !.dir = ExtractDalamud(disk.dir, DalamudPackages[disk.dalamud_temp])]
       \/ /\ SetupFail("Failed to extract zip")
          /\ disk' = [disk EXCEPT !.dir.exists = TRUE]
    /\ UNCHANGED << launchVars, race, pin, pure >>

\* `fs::remove_file(&temp_path)` after the extraction of the add-on host.
setup_remove_dalamud_temp ==
    /\ sync.at = "remove_dalamud_temp"
    /\ \/ /\ SetupStep("remove_dalamud_temp", sync, "remove dalamud_temp.zip")
          /\ disk' = [disk EXCEPT !.dalamud_temp = "none"]
       \/ /\ SetupFail("Failed to remove temp file")
          /\ UNCHANGED disk
    /\ UNCHANGED << launchVars, race, pin, pure >>

\* `fs::write(format!("{}/version.json", ..), ..)`.
setup_write_version_json ==
    /\ sync.at = "write_version_json"
    /\ \/ /\ SetupStep("write_version_json", sync, "write version.json")
          /\ disk' = [disk EXCEPT !.dir.marker = TRUE]
       \/ /\ SetupFail("Failed to write version info")
          /\ UNCHANGED disk
    /\ UNCHANGED << launchVars, race, pin, pure >>

\* `download_file(&client, &asset_info.package_url, &temp_path).await?`.
setup_download_assets ==
    /\ sync.at = "download_assets"
    /\ \/ \E pkg \in DOMAIN AssetPackages :
            /\ SetupStep("download_assets", sync, "download assets")
            /\ disk' = [disk EXCEPT !.asset_temp = pkg]
       \/ /\ SetupFail("Failed to download file")
          /\ UNCHANGED disk
    /\ UNCHANGED << launchVars, race, pin, pure >>

\* `extract_zip(&temp_path, &assets_dir)?`.
setup_extract_assets ==
    /\ sync.at = "extract_assets"
    /\ \/ /\ SetupStep("extract_assets", sync, "extract assets")
          /\ disk' = [disk EXCEPT
                        !.assets = ExtractAssets(disk.assets, AssetPackages[disk.asset_temp])]
       \/ /\ SetupFail("Failed to extract zip")
          /\ UNCHANGED disk
    /\ UNCHANGED << launchVars, race, pin, pure >>

\* `fs::remove_file(&temp_path)` after the extraction of the assets.
setup_remove_asset_temp ==
    /\ sync.at = "remove_asset_temp"
    /\ \/ /\ SetupStep("remove_asset_temp", sync, "remove asset_package_temp.zip")
          /\ disk' = [disk EXCEPT !.asset_temp = "none"]
       \/ /\ SetupFail("Failed to remove temp file")
          /\ UNCHANGED disk
    /\ UNCHANGED << launchVars, race, pin, pure >>

\* The loop that verifies every listed asset.
setup_verify_assets ==
    /\ sync.at = "verify_assets"
    /\ LET r == VerifyAssets(disk.assets, sync.asset_info, AssetOrder) IN
       IF r = "Ok" THEN SetupStep("verify_assets", sync, "verify assets")
                   ELSE SetupFail(r)
    /\ UNCHANGED << launchVars, disk, race, pin, pure >>

\* `fs::write(&asset_ver_path, asset_info.version.to_string())`: fs::write
\* opens the file truncating it and then writes; when it fails the file is
\* as it was (the open failed) or left without a parseable number (the
\* write failed after the truncation).
setup_write_asset_ver ==
    /\ sync.at = "write_asset_ver"
    /\ \/ /\ SetupStep("write_asset_ver", sync, "write asset.ver")
          /\ disk' = [disk EXCEPT
                        !.asset_ver = [state |-> "int", n |-> sync.asset_info.version]]
       \/ /\ SetupFail("Failed to write asset version")
          /\ \/ UNCHANGED disk
             \/ disk' = [disk EXCEPT !.asset_ver = [state |-> "garbage", n |-> 0]]
    /\ UNCHANGED << launchVars, race, pin, pure >>

\* The critical files, then the best-effort font copies and Ok.
setup_critical_files ==
    /\ sync.at = "critical_files"
    /\ LET r == CriticalFiles(disk.dir) IN
       IF r = "Ok" THEN SetupStep("critical_files", sync, "critical files")
                   ELSE SetupFail(r)
    /\ UNCHANGED << launchVars, disk, race, pin, pure >>

NextSync ==
    \/ setup_dalamud
    \/ setup_check_dalamud_version
    \/ setup_check_integrity
    \/ setup_check_asset_version
    \/ setup_create_dirs
    \/ setup_download_dalamud
    \/ setup_extract_dalamud
    \/ setup_remove_dalamud_temp
    \/ setup_write_version_json
    \/ setup_download_assets
    \/ setup_extract_assets
    \/ setup_remove_asset_temp
    \/ setup_verify_assets
    \/ setup_write_asset_ver
    \/ setup_critical_files

SpecSync == InitSync /\ [][NextSync]_vars

\* ---- the pure functions -------------------------------------------------

\* The sequences over S of length at most n.
SeqsUpTo(S, n) == UNION {[1..k -> S] : k \in 0..n}

\* A path is a sequence of lexical items: the two separators, the name
\* `addon`, and `x` for any other text without a separator.
PathItems == {"/", "\\", "addon", "x"}

\* `str::ends_with`.
ends_with(text, suffix) ==
    /\ Len(text) >= Len(suffix)
    /\ SubSeq(text, Len(text) - Len(suffix) + 1, Len(text)) = suffix

\* The base path of setup_dalamud and inject_dalamud: the configured path if
\* it ends with "/addon" or "\\addon", else `format!("{}/addon", ..)`.
BasePathAlwaysAppend(dalamud_path) == dalamud_path \o << "/", "addon" >>

base_path(dalamud_path) ==
    IF \/ ends_with(dalamud_path, << "/", "addon" >>)
       \/ ends_with(dalamud_path, << "\\", "addon" >>)
      THEN dalamud_path
      ELSE dalamud_path \o << "/", "addon" >>

\* The values a digest byte is drawn from.
DigestBytes == {0, 1, 127, 128, 255}

\* `u8::wrapping_add`.
wrapping_add(a, b) == (a + b) % 256

\* `!(bytes[1].wrapping_add(bytes[2]).wrapping_add(bytes[3])
\*   .wrapping_add(bytes[4]))` on u8, hash being `hash[0..4]`.
ChecksumPlain(hash) ==
    wrapping_add(wrapping_add(wrapping_add(hash[1], hash[2]), hash[3]), hash[4])

Checksum(hash) ==
    255 - wrapping_add(wrapping_add(wrapping_add(hash[1], hash[2]), hash[3]), hash[4])

\* `hex::encode`: two lowercase digits for each byte, high nibble first.
HexDigits == << "0", "1", "2", "3", "4", "5", "6", "7",
                "8", "9", "a", "b", "c", "d", "e", "f" >>

hex_encode(bytes) ==
    [i \in 1..(2 * Len(bytes)) |->
        LET b == bytes[(i + 1) \div 2]
        IN  IF i % 2 = 1 THEN HexDigits[(b \div 16) + 1]
                         ELSE HexDigits[(b % 16) + 1]]

\* make_computer_id, from the first four bytes of the SHA-1 digest on.
make_computer_id(hash) ==
    hex_encode(<< Checksum(hash), hash[1], hash[2], hash[3], hash[4] >>)

\* A landing page is a sequence of lexical items: `<input`, the attribute
\* name="_STORED_", the attributes value="abc123" and value="zzz", `>`, a
\* line break, and other text that holds none of these.
PageItems == {"<input", "name", "abc123", "zzz", ">", "\n", "other"}

Values == {"abc123", "zzz"}

\* `.*?` between positions i and j: no line break strictly between them.
OneLine(page, i, j) == \A k \in (i + 1)..(j - 1) : page[k] # "\n"

\* The matches of <input.*?name="_STORED_".*?value="([^"]*) as triples of
\* the positions of `<input`, the name attribute and the value attribute.
StoredMatches(page) ==
    {m \in (DOMAIN page) \X (DOMAIN page) \X (DOMAIN page) :
        /\ m[1] < m[2] /\ m[2] < m[3]
        /\ page[m[1]] = "<input" /\ page[m[2]] = "name" /\ page[m[3]] \in Values
        /\ OneLine(page, m[1], m[2]) /\ OneLine(page, m[2], m[3])}

\* `re.captures(&body)`: the leftmost start, and from there the two lazy
\* repetitions each as short as a match allows.
StoredCapture(page) ==
    LET ms == StoredMatches(page)
        first == {m \in ms : \A n \in ms :
                     \/ m[1] < n[1]
                     \/ m[1] = n[1] /\ m[2] < n[2]
                     \/ m[1] = n[1] /\ m[2] = n[2] /\ m[3] <= n[3]}
    IN  IF ms = {} THEN "Could not find _STORED_ value"
        ELSE page[(CHOOSE m \in first : TRUE)[3]]

\* What the landing-page request is answered with: a status and a page.
LandingStatuses == {200, 404, 503}

LandingPages == { << "<input", "name", "abc123", ">" >>, << "other" >> }

\* get_stored from the response on: `response.text()` is read and searched
\* whatever `response.status()` is.
get_stored_from(response) == StoredCapture(response.page)

\* The keys of the launch-argument string launch_game formats.
GameArgKeys ==
    {"DEV.DataPathType", "DEV.MaxEntitledExpansionID", "DEV.TestSID",
     "DEV.UseSqPack", "SYS.Region", "language"}

\* The process launch_game starts for the configuration c: its arguments are
\* the formatted string, and with lpEnvironment null its environment is the
\* launcher's own (steam_env: IS_FFXIV_LAUNCH_FROM_STEAM is set in it).
GameProcess(c, steam_env) ==
    [args |-> GameArgKeys, steam_env |-> steam_env]

\* The process the launch_game of network.rs starts: with is_steam the
\* variable is set and the argument IsSteam=1 is added.
LegacyGameProcess(c, steam_env) ==
    [args |-> {"DEV.TestSID", "DEV.MaxEntitledExpansionID", "language", "region"}
                 \cup (IF c.is_steam THEN {"IsSteam"} ELSE {}),
     steam_env |-> steam_env \/ c.is_steam]

\* `root_directories`: the directories setup_dalamud creates under
\* dalamud_path when something needs an update.
root_directories ==
    { << "dalamudAssets" >>, << "dalamudAssets", "/", "UIRes" >>,
      << "installedPlugins" >>, << "pluginConfigs" >>, << "runtime" >>,
      << "logs" >> }

\* The directories the creation step of setup_dalamud ensures: the base
\* path and `format!("{}/{}", config.dalamud_path, dir)` for each entry.
EnsuredDirectories(dalamud_path) ==
    {base_path(dalamud_path)}
        \cup {dalamud_path \o << "/" >> \o dir : dir \in root_directories}

\* The directory fields of the DalamudStartInfo inject_dalamud builds.
StartInfoDirectories(dalamud_path) ==
    [configuration_path |-> dalamud_path \o << "/", "config" >>,
     plugin_directory   |-> dalamud_path \o << "/", "installedPlugins" >>,
     asset_directory    |-> dalamud_path \o << "/", "dalamudAssets" >>,
     logging_path       |-> dalamud_path \o << "/", "logs" >>]

\* The values of --dalamud-configuration-path, --dalamud-plugin-directory,
\* --dalamud-asset-directory and --logpath on the injector command line.
InjectorDirectoryArgs(dalamud_path) ==
    [configuration_path |-> dalamud_path \o << "/", "config" >>,
     plugin_directory   |-> dalamud_path \o << "/", "installedPlugins" >>,
     asset_directory    |-> dalamud_path \o << "/", "dalamudAssets" >>,
     logging_path       |-> dalamud_path \o << "/", "logs" >>]

\* An unsigned 64-bit value is four 16-bit words, the lowest first; a number
\* as it is written out in decimal is a sign and such a magnitude.
WordBase == 2 ^ 16

\* The injection delays a configuration may carry: small ones, the largest
\* value a signed 32-bit integer holds, and values beyond it.
DelayValues ==
    { << w0, w1, w2, w3 >> : w0 \in {0, 5000, WordBase - 1},
                             w1 \in {0, (WordBase \div 2) - 1, WordBase \div 2, WordBase - 1},
                             w2 \in {0, 1}, w3 \in {0, WordBase - 1} }

\* `format!("{}", config.injection_delay)` of the u64.
format_u64(v) == [negative |-> FALSE, magnitude |-> v]

\* `config.injection_delay as i32`: the low 32 bits, read as two's
\* complement.
as_i32(v) ==
    IF v[2] < WordBase \div 2
      THEN [negative |-> FALSE, magnitude |-> << v[1], v[2], 0, 0 >>]
      ELSE [negative |-> TRUE,
            magnitude |-> IF v[1] = 0
                            THEN << 0, WordBase - v[2], 0, 0 >>
                            ELSE << WordBase - v[1], WordBase - 1 - v[2], 0, 0 >>]

\* The two places inject_dalamud writes the delay to: the start info field
\* delay_initialize_ms and the argument --dalamud-delay-initialize.
DelayFields(delay) ==
    [delay_initialize_ms |-> as_i32(delay),
     delay_arg |-> format_u64(delay)]

\* The calls of the pure functions, each with the inputs it is given.
PureCalls ==
    [fn : {"directories"}, input : SeqsUpTo(PathItems, MaxPathLen),
     output : {<< >>}, done : {FALSE}]
    \cup [fn : {"DelayFields"}, input : DelayValues,
          output : {<< >>}, done : {FALSE}]
    \cup
    [fn : {"get_stored_from"},
     input : [status : LandingStatuses, page : LandingPages],
     output : {<< >>}, done : {FALSE}]
    \cup [fn : {"GameProcess", "LegacyGameProcess"},
          input : [is_steam : BOOLEAN, steam_env : BOOLEAN],
          output : {<< >>}, done : {FALSE}]
    \cup
    [fn : {"check_dalamud_integrity"},
     input : {[exists |-> TRUE, manifest |-> m, hashes |-> h, files |-> fs,
               injector |-> TRUE, fasm |-> TRUE, marker |-> FALSE] :
                 m \in ManifestStates, h \in [Files -> RecordedHashes],
                 fs \in [Files -> FileStates]},
     output : {<< >>}, done : {FALSE}]
    \cup [fn : {"base_path"}, input : SeqsUpTo(PathItems, MaxPathLen),
          output : {<< >>}, done : {FALSE}]
    \cup [fn : {"make_computer_id"}, input : [1..4 -> DigestBytes],
          output : {<< >>}, done : {FALSE}]
    \cup [fn : {"get_stored"}, input : SeqsUpTo(PageItems, MaxPageLen),
          output : {<< >>}, done : {FALSE}]

InitPure ==
    /\ LaunchInit
    /\ disk = NoDisk
    /\ sync = NoSync
    /\ race = NoRace
    /\ pin = NoPin
    /\ pure \in PureCalls

call_check_dalamud_integrity ==
    /\ pure.fn = "check_dalamud_integrity" /\ ~pure.done
    /\ \E r \in check_dalamud_integrity(pure.input) :
         pure' = [pure EXCEPT !.output = r, !.done = TRUE]
    /\ UNCHANGED << launchVars, syncVars >>

call_base_path ==
    /\ pure.fn = "base_path" /\ ~pure.done
    /\ pure' = [pure EXCEPT !.output = base_path(pure.input), !.done = TRUE]
    /\ UNCHANGED << launchVars, syncVars >>

call_make_computer_id ==
    /\ pure.fn = "make_computer_id" /\ ~pure.done
    /\ pure' = [pure EXCEPT !.output = make_computer_id(pure.input), !.done = TRUE]
    /\ UNCHANGED << launchVars, syncVars >>

call_get_stored ==
    /\ pure.fn = "get_stored" /\ ~pure.done
    /\ pure' = [pure EXCEPT !.output = StoredCapture(pure.input), !.done = TRUE]
    /\ UNCHANGED << launchVars, syncVars >>

call_get_stored_from ==
    /\ pure.fn = "get_stored_from" /\ ~pure.done
    /\ pure' = [pure EXCEPT !.output = get_stored_from(pure.input), !.done = TRUE]
    /\ UNCHANGED << launchVars, syncVars >>

call_GameProcess ==
    /\ pure.fn = "GameProcess" /\ ~pure.done
    /\ pure' = [pure EXCEPT !.output = GameProcess(pure.input, pure.input.steam_env),
                            !.done = TRUE]
    /\ UNCHANGED << launchVars, syncVars >>

call_LegacyGameProcess ==
    /\ pure.fn = "LegacyGameProcess" /\ ~pure.done
    /\ pure' = [pure EXCEPT !.output = LegacyGameProcess(pure.input, pure.input.steam_env),
                            !.done = TRUE]
    /\ UNCHANGED << launchVars, syncVars >>

\* The directories setup_dalamud ensures and the ones inject_dalamud hands
\* to the injector, for one configured dalamud_path.
call_directories ==
    /\ pure.fn = "directories" /\ ~pure.done
    /\ pure' = [pure EXCEPT !.output = [ensured |-> EnsuredDirectories(pure.input),
                                        start_info |-> StartInfoDirectories(pure.input),
                                        args |-> InjectorDirectoryArgs(pure.input)],
                            !.done = TRUE]
    /\ UNCHANGED << launchVars, syncVars >>

call_DelayFields ==
    /\ pure.fn = "DelayFields" /\ ~pure.done
    /\ pure' = [pure EXCEPT !.output = DelayFields(pure.input), !.done = TRUE]
    /\ UNCHANGED << launchVars, syncVars >>

NextPure ==
    \/ call_directories
    \/ call_DelayFields
    \/ call_get_stored_from
    \/ call_GameProcess
    \/ call_LegacyGameProcess
    \/ call_check_dalamud_integrity
    \/ call_base_path
    \/ call_make_computer_id
    \/ call_get_stored

SpecPure == InitPure /\ [][NextPure]_vars

\* ------------------------------------------- two attempts, one dalamud_path
\* launch_game is an async command without a lock or a guard: the shell may
\* invoke it again while an earlier attempt is still inside setup_dalamud.
\* Each attempt then runs the update blocks of setup_dalamud on its own
\* task, and their file system calls interleave freely.

\* The archives the servers may answer a download with; a release published
\* between two requests makes them differ.
ArchivesServed(file) ==
    IF file = "dalamud_temp.zip" THEN {"good", "tampered"} ELSE {"good", "changed"}

\* The archive a program point of the update blocks works on.
ArchiveAt(point) ==
    IF point \in {"download_dalamud", "extract_dalamud", "remove_dalamud_temp"}
      THEN "dalamud_temp.zip"
      ELSE "asset_package_temp.zip"

\* The statement after `point`, given whether the asset block is entered.
RaceNext(point, needs_asset_update) ==
    CASE point = "download_dalamud"    -> "extract_dalamud"
      [] point = "extract_dalamud"     -> "remove_dalamud_temp"
      [] point = "remove_dalamud_temp" ->
            IF needs_asset_update THEN "download_assets" ELSE "return"
      [] point = "download_assets"     -> "extract_assets"
      [] point = "extract_assets"      -> "remove_asset_temp"
      [] OTHER                         -> "return"

\* `?`: the attempt's setup_dalamud returns the error.
RaceFail(p, error) ==
    race' = [race EXCEPT !.at[p] = "return", !.error[p] = error]

\* Both attempts have decided what to update and stand before their first
\* download (or have nothing to do).
InitRace ==
    /\ LaunchInit
    /\ disk = NoDisk
    /\ sync = NoSync
    /\ pure = NoCall
    /\ \E start \in [Attempts -> {"download_dalamud", "download_assets", "return"}] :
         race = [NoRace EXCEPT !.at = start]
    /\ pin = NoPin

\* `download_file(&client, url, &temp_path).await?`: on success
\* `fs::write(path, bytes)` creates or replaces the file at the path.
race_download_file ==
    /\ \E p \in Attempts :
         /\ race.at[p] \in {"download_dalamud", "download_assets"}
         /\ LET file == ArchiveAt(race.at[p]) IN
            \/ RaceFail(p, "Failed to download file")
            \/ \E pkg \in ArchivesServed(file), more \in BOOLEAN :
                 race' = [race EXCEPT
                            !.at[p] = RaceNext(race.at[p], more),
                            !.got[p] = pkg,
                            !.temp[TempPath(p, file)] = pkg,
                            !.last[file] = [by |-> p, content |-> pkg]]
    /\ UNCHANGED << launchVars, disk, sync, pin, pure >>

\* `extract_zip(&temp_path, ..)?`: `File::open(zip_path)` fails when the file
\* is not there, otherwise whatever archive lies at the path is unpacked.
race_extract_zip ==
    /\ \E p \in Attempts :
         /\ race.at[p] \in {"extract_dalamud", "extract_assets"}
         /\ LET content == race.temp[TempPath(p, ArchiveAt(race.at[p]))] IN
            IF content = "none"
              THEN RaceFail(p, "Failed to open zip file")
              ELSE \/ RaceFail(p, "Failed to extract zip")
                   \/ \E more \in BOOLEAN :
                        race' = [race EXCEPT
                                   !.at[p] = RaceNext(race.at[p], more),
                                   !.unpacked[p] = content]
    /\ UNCHANGED << launchVars, disk, sync, pin, pure >>

\* `fs::remove_file(&temp_path).map_err(..)?`: fails when the file is gone.
race_remove_file ==
    /\ \E p \in Attempts :
         /\ race.at[p] \in {"remove_dalamud_temp", "remove_asset_temp"}
         /\ LET file == ArchiveAt(race.at[p]) IN
            IF race.temp[TempPath(p, file)] = "none"
              THEN RaceFail(p, "Failed to remove temp file")
              ELSE \E more \in BOOLEAN :
                     race' = [race EXCEPT
                                !.at[p] = RaceNext(race.at[p], more),
                                !.temp[TempPath(p, file)] = "none",
                                !.last[file] = [by |-> p, content |-> "none"]]
    /\ UNCHANGED << launchVars, disk, sync, pin, pure >>

NextRace ==
    \/ race_download_file
    \/ race_extract_zip
    \/ race_remove_file

SpecRace == InitRace /\ [][NextRace]_vars

\* ------------------------------------- the host version within one attempt
\* An attempt with the add-on host enabled calls setup_dalamud, gets its
\* session id, and then calls inject_dalamud.  Both functions fetch the
\* version manifest themselves; upstream may publish another version at any
\* moment in between.

\* inject_dalamud: `let version_info = check_dalamud_version(&client,
\* false).await?` and then `version_path = format!("{}/Hooks/{}", base_path,
\* version_info.assembly_version)`: the version is the one just fetched.
InjectVersion(p, fetched) == fetched

\* The disk holds any set of version directories left by earlier launches;
\* the manifest names any version.
InitPin ==
    /\ LaunchInit
    /\ disk = NoDisk
    /\ sync = NoSync
    /\ race = NoRace
    /\ pure = NoCall
    /\ \E r \in Versions, h \in [Versions -> {"absent", "present"}] :
         pin = [NoPin EXCEPT !.remote = r, !.hooks = h, !.at = "setup_dalamud"]

\* Upstream publishes another version manifest.
pin_publish ==
    /\ pin.at # "return"
    /\ \E v \in Versions \ {pin.remote} : pin' = [pin EXCEPT !.remote = v]
    /\ UNCHANGED << launchVars, disk, sync, race, pure >>

\* setup_dalamud returns: Ok after the directory of the version it fetched
\* has been found intact or installed and its critical files checked, or Err.
pin_setup_dalamud ==
    /\ pin.at = "setup_dalamud"
    /\ \/ pin' = [pin EXCEPT !.at = "return", !.result = "Dalamud setup failed"]
       \/ pin' = [pin EXCEPT !.at = "get_session_id",
                             !.synced = pin.remote,
                             !.hooks[pin.remote] = "checked"]
    /\ UNCHANGED << launchVars, disk, sync, race, pure >>

\* Path preparation, session acquisition and arguments preparation.
pin_get_session_id ==
    /\ pin.at = "get_session_id"
    /\ \/ pin' = [pin EXCEPT !.at = "return", !.result = "Failed to get session ID"]
       \/ pin' = [pin EXCEPT !.at = "inject_dalamud"]
    /\ UNCHANGED << launchVars, disk, sync, race, pure >>

\* inject_dalamud up to `if !Path::new(&injector_path).exists()`.
pin_inject_dalamud ==
    /\ pin.at = "inject_dalamud"
    /\ \/ pin' = [pin EXCEPT !.at = "return", !.result = "Failed to get version info"]
       \/ LET v == InjectVersion(pin, pin.remote) IN
          IF pin.hooks[v] = "absent"
            THEN pin' = [pin EXCEPT !.at = "return", !.version_info = v,
                                    !.result = "Dalamud injector not found"]
            ELSE pin' = [pin EXCEPT !.at = "command", !.version_info = v]
    /\ UNCHANGED << launchVars, disk, sync, race, pure >>

\* `Command::new(&injector_path) .. .output()`.
pin_run_injector ==
    /\ pin.at = "command"
    /\ \E r \in {"Ok", "Injector failed"} :
         pin' = [pin EXCEPT !.at = "return", !.ran = pin.version_info, !.result = r]
    /\ UNCHANGED << launchVars, disk, sync, race, pure >>

NextPin ==
    \/ pin_publish
    \/ pin_setup_dalamud
    \/ pin_get_session_id
    \/ pin_inject_dalamud
    \/ pin_run_injector

SpecPin == InitPin /\ [][NextPin]_vars

\* ================================================================ claims

\* How often the call `e` occurs in the trace t.
Count(t, e) == Cardinality({i \in DOMAIN t : t[i] = e})

LoginRequests == {"GET login/top", "POST login.send"}

NetworkRequests == LoginRequests \cup {"GET VersionInfo", "GET Asset/Meta", "GET download"}

\* The calls that create or resume the game process, or start the injector.
LaunchCalls == {"CreateProcessW", "ResumeThread", "Dalamud.Injector.exe"}

Terminal == {"Idle", "Done", "Failed"}

\* The place of a stage in the order of the orchestrator's state machine.
StageRank(stage) ==
    CASE stage = "Idle"           -> 0
      [] stage = "AddonSync"      -> 1
      [] stage = "PathPrepare"    -> 2
      [] stage = "SessionAcquire" -> 3
      [] stage = "ArgsPrepared"   -> 4
      [] stage = "LaunchInjected" -> 5
      [] stage = "LaunchDirect"   -> 5
      [] OTHER                    -> 6

\* C1: the stages of one attempt run in the order add-on sync (only if
\* enabled), session acquisition, argument preparation, launch (direct or
\* injected), done; every stage is entered at most once per attempt; a
\* failing stage ends the attempt in Failed with that stage's error and no
\* later stage is started.
C1_StageOrder ==
    [][ /\ (pc' # pc /\ pc \in Terminal) =>
              /\ attempt' = attempt + 1
              /\ pc' = IF config'.enable_dalamud THEN "AddonSync" ELSE "PathPrepare"
        /\ (pc' # pc /\ pc \notin Terminal /\ pc' = "Failed") =>
              /\ ~result'.ok
              /\ result'.stage = pc
              /\ result'.error = StageError(pc)
        /\ (pc' # pc /\ pc \notin Terminal /\ pc' # "Failed") =>
              /\ StageRank(pc') = StageRank(pc) + 1
              /\ pc' = "LaunchInjected" => config.enable_dalamud
              /\ pc' = "LaunchDirect" => ~config.enable_dalamud
              /\ pc' = "Done" => result'.ok
        /\ (pc \in {"Done", "Failed"} /\ attempt' = attempt) => UNCHANGED vars
        /\ \A e \in {"GET login/top", "POST login.send", "GET Asset/Meta",
                     "CreateProcessW", "Dalamud.Injector.exe"} : Count(trace', e) <= 1
      ]_vars

\* C1 witness: an attempt with the add-on host enabled that went through
\* every stage to Done.
C1_Witness ==
    /\ pc = "Done" /\ config.enable_dalamud /\ result.ok
    /\ metrics = << "Dalamud setup", "Path preparation", "Session ID retrieval",
                    "Arguments preparation", "Dalamud injection and launch",
                    "Total launch time" >>

\* C2: with the add-on host enabled no login-service request is issued
\* before or during the sync, and none at all if the sync fails: a login
\* request in the trace means setup_dalamud has returned Ok, and every
\* request of the sync comes before it.
C2_TokenAfterSync ==
    config.enable_dalamud =>
        /\ (\E i \in DOMAIN trace : trace[i] \in LoginRequests) =>
              /\ pc # "AddonSync"
              /\ ~(pc = "Failed" /\ result.stage = "AddonSync")
              /\ metrics # << >> /\ metrics[1] = "Dalamud setup"
        /\ \A i, j \in DOMAIN trace :
              (trace[i] \in LoginRequests /\ trace[j] \in {"GET Asset/Meta", "GET download"})
                  => j < i

\* C2 witness: a sync that downloaded a package, followed by the login POST.
C2_Witness ==
    /\ config.enable_dalamud
    /\ \E i, j \in DOMAIN trace :
         trace[i] = "GET download" /\ trace[j] = "POST login.send" /\ i < j

\* C3: a login.send response without the `sid,...,terms` pattern fails the
\* attempt at the session-acquisition stage; no game process is created and
\* the injector is not invoked in that attempt.
C3_NoSidNoProcess ==
    (body # NoBody /\ SidMatches(body) = {} /\ ~(pc = "SessionAcquire" /\ at = "parse")) =>
        /\ pc = "Failed"
        /\ result.stage = "SessionAcquire"
        /\ handed = << >>
        /\ \A i \in DOMAIN trace : trace[i] \notin LaunchCalls
        /\ handles = NoHandles

\* C3 witness: the response had no pattern and the attempt has failed.
C3_Witness ==
    /\ body # NoBody /\ SidMatches(body) = {}
    /\ pc = "Failed" /\ result.cause = "Failed to extract session ID"

\* C4: every attempt that reaches the launch stage has performed its own
\* session acquisition, and the DEV.TestSID handed to the game or to the
\* injector is the session id that attempt's acquisition returned; a token
\* of an earlier attempt is never handed out again.
C4_FreshToken ==
    /\ pc \in {"LaunchDirect", "LaunchInjected"} =>
          /\ Count(trace, "POST login.send") = 1
          /\ sid # NoSid
    /\ \A k \in DOMAIN handed :
          LET s == handed[k].args.DEV_TestSID IN
          /\ Count(trace, "POST login.send") = 1
          /\ body # NoBody
          /\ \E m \in SidMatches(body) : s = SubSeq(body, m[1] + 1, m[2] - 1)
          /\ \A i \in DOMAIN s : s[i].kind = "token" => s[i].n = issued
          /\ \E i \in DOMAIN s : s[i].kind = "token"

\* C4 witness: the second attempt hands out the second token.
C4_Witness ==
    /\ attempt = 2 /\ issued = 2
    /\ handed # << >> /\ handed[1].by = "launcher"
    /\ handed[1].args.DEV_TestSID = << Tok(2) >>

\* C5: between the successful token acquisition and the call that hands the
\* token to the game (CreateProcessW in direct mode, the injector in
\* injection mode) the attempt issues no network request and performs no
\* timed wait.
C5_TokenUsedImmediately ==
    \A i, j \in DOMAIN trace :
        ( /\ trace[i] = "POST login.send"
          /\ i < j
          /\ \A k \in (i + 1)..(j - 1) : trace[k] \notin {"CreateProcessW", "Dalamud.Injector.exe"} )
        => trace[j] \notin (NetworkRequests \cup {"sleep"})

\* C6: the two launch strategies exclude each other within one attempt: with
\* the add-on host enabled the launcher neither creates nor resumes a game
\* process and only the injector is handed the launch arguments; with it
\* disabled the injector is never invoked; at most one component is handed
\* the launch in an attempt.
C6_OneLauncher ==
    /\ config.enable_dalamud =>
          /\ \A i \in DOMAIN trace : trace[i] \notin {"CreateProcessW", "ResumeThread"}
          /\ handles = NoHandles
          /\ \A k \in DOMAIN handed : handed[k].by = "injector"
    /\ ~config.enable_dalamud =>
          /\ \A i \in DOMAIN trace : trace[i] # "Dalamud.Injector.exe"
          /\ \A k \in DOMAIN handed : handed[k].by = "launcher"
    /\ Len(handed) <= 1
    /\ Count(trace, "CreateProcessW") + Count(trace, "Dalamud.Injector.exe") <= 1

\* C6 witness: an injected launch that reached Done; the injector alone was
\* handed the game.
C6_Witness ==
    /\ pc = "Done" /\ config.enable_dalamud
    /\ Len(handed) = 1 /\ handed[1].by = "injector"
    /\ Count(trace, "Dalamud.Injector.exe") = 1

\* create_suspended_game_process is about to return.
ProcReturns == pc = "LaunchDirect" /\ at \in {"Ok", "Err"}

\* C7 as stated: on every exit path of create_suspended_game_process
\* (success, resume failure, creation failure or earlier error) both native
\* handles have been closed exactly once when the call returns.
C7_ClosedOnceOnEveryPath ==
    ProcReturns => handles.closed.hProcess = 1 /\ handles.closed.hThread = 1

\* C7 amended: on every exit path on which the process was created
\* (success, resume failure) both handles have been closed exactly once
\* when the call returns; on the paths before a process exists no handle was
\* opened and CloseHandle is not called; no path leaves a handle open and no
\* path closes a handle twice.
C7_HandlesReleased ==
    ProcReturns =>
        /\ handles.hProcess # "open" /\ handles.hThread # "open"
        /\ handles.closed.hProcess <= 1 /\ handles.closed.hThread <= 1
        /\ Count(trace, "CreateProcessW") = 1 /\ handles.ospid # 0
              => handles.closed.hProcess = 1 /\ handles.closed.hThread = 1
        /\ handles.ospid = 0
              => handles.closed.hProcess = 0 /\ handles.closed.hThread = 0

\* C7 witness: the resume failed after the process was created, and both
\* handles were closed once before Err is returned.
C7_Witness ==
    /\ ProcReturns /\ at = "Err" /\ handles.err = "Failed to resume process"
    /\ handles.closed.hProcess = 1 /\ handles.closed.hThread = 1

\* C8: when create_suspended_game_process returns Ok the process id is not
\* zero, and the id was read from the process handle while neither handle
\* had been closed.
C8_PidBeforeClose ==
    [][ /\ (pc' = "LaunchDirect" /\ at' = "Ok") =>
              /\ handles'.pid # 0 /\ handles'.pid # -1
              /\ handles'.pid = handles'.ospid
        /\ (handles'.pid # handles.pid /\ attempt' = attempt) =>
              /\ handles.hProcess = "open" /\ handles.hThread = "open"
              /\ handles.closed.hProcess = 0 /\ handles.closed.hThread = 0
      ]_vars

\* C8 witness: Ok is about to be returned with the id of the new process.
C8_Witness ==
    /\ ProcReturns /\ at = "Ok"
    /\ handles.pid = 5678 /\ handles.ospid = 5678
    /\ handles.hProcess = "closed"

\* A download_file call has finished.
Downloaded == dl.status \notin {"none", "running"}

\* C9: on a chain of N redirects followed by a success response
\* download_file returns Ok when N < 15 and fails with 'Too many redirects'
\* when N >= 15; it never issues more than 15 requests.
C9_RedirectBound ==
    /\ dl.requests <= 15
    /\ (Downloaded /\ dl.final = "success") =>
          /\ dl.redirects < 15 => dl.status = "ok" /\ dl.requests = dl.redirects + 1
          /\ dl.redirects >= 15 => dl.status = "Too many redirects" /\ dl.requests = 15

\* C9 witness: fifteen redirects ahead of a success end in 'Too many
\* redirects' after fifteen requests.
C9_Witness ==
    /\ Downloaded /\ dl.final = "success" /\ dl.redirects = 15
    /\ dl.status = "Too many redirects" /\ dl.requests = 15

\* C10: a response that is neither a redirect nor a success makes
\* download_file fail at once with the download-status error, whatever the
\* number of redirects followed before: the retry counter is not
\* incremented and no further request is issued.
C10_StatusErrorImmediate ==
    (dl.status # "none" /\ dl.final = "status_error" /\ dl.redirects < 15) =>
        /\ dl.requests <= dl.redirects + 1
        /\ dl.retries <= dl.redirects
        /\ dl.requests = dl.redirects + 1 =>
              /\ dl.status = "Download failed with status"
              /\ dl.retries = dl.redirects
        /\ (pc = "Failed" /\ result.stage = "AddonSync" /\ Downloaded) =>
              result.cause = "Download failed with status"

\* C10 witness: three redirects were followed, the fourth response is an
\* error status and the download has failed after four requests.
C10_Witness ==
    /\ dl.final = "status_error" /\ dl.redirects = 3
    /\ dl.status = "Download failed with status"
    /\ dl.requests = 4 /\ dl.retries = 3

\* ---- the add-on sync

\* An installation in which hashes.json is a readable map and every file it
\* lists is there, readable, and has the recorded digest.
Intact(dir) ==
    /\ dir.exists
    /\ dir.manifest = "parsed"
    /\ \A f \in Files :
         dir.hashes[f] # NoHash =>
            /\ dir.files[f] \in Contents
            /\ dir.hashes[f] = Sha1Hex(dir.files[f])

\* hashes.json lists a file that is absent, or one whose digest differs.
ListedFileBad(dir) ==
    /\ dir.manifest = "parsed"
    /\ \E f \in Files :
         /\ dir.hashes[f] # NoHash
         /\ \/ dir.files[f] = "absent"
            \/ dir.files[f] \in Contents /\ dir.hashes[f] # Sha1Hex(dir.files[f])

\* C11: check_dalamud_integrity returns true only for an intact version
\* directory, and returns false when hashes.json is missing, a listed file is
\* absent or a recomputed digest differs from the recorded hash.
C11_IntegrityVerdict ==
    (pure.fn = "check_dalamud_integrity" /\ pure.done) =>
        /\ pure.output = "true" => Intact(pure.input)
        /\ (pure.input.manifest = "missing" \/ ListedFileBad(pure.input))
              => pure.output = "false"

\* The run has the answer of the version service and is past the check of
\* the local installation.
PastIntegrityCheck ==
    /\ Count(sync.trace, "GET VersionInfo") = 1
    /\ sync.at # "check_dalamud_integrity"

\* C12: a version directory that is absent or not a valid installation is
\* re-provisioned: the run decides to download and extract the host package.
C12_UntrustedReprovisioned ==
    (PastIntegrityCheck /\ ~Intact(sync.found.dir)) => sync.needs_dalamud_update

\* C13: whenever setup_dalamud returns success, the version directory
\* satisfies the integrity check, also when it was extracted in this run.
C13_SuccessMeansIntact ==
    sync.result = "Ok" => Intact(disk.dir)

\* The integer asset.ver stands for: 0 when it is missing or no integer.
LocalAssetVersion(file) == IF file.state = "int" THEN file.n ELSE 0

\* The run has the asset manifest and has decided about the asset update.
AssetDecided == Count(sync.trace, "GET Asset/Meta") = 1

\* C14: the asset bundle is updated if and only if the remote asset version
\* is strictly greater than the local one (0 for a missing or unparseable
\* asset.ver); with remote <= local no asset package is downloaded.
C14_AssetUpdateIffNewer ==
    AssetDecided =>
        LET remote == sync.asset_info.version
            local == LocalAssetVersion(sync.found.asset_ver)
        IN  /\ sync.needs_asset_update <=> remote > local
            /\ Count(sync.trace, "download assets") > 0 => remote > local
            /\ (sync.result = "Ok" /\ remote > local) =>
                  /\ Count(sync.trace, "download assets") = 1
                  /\ disk.asset_ver = [state |-> "int", n |-> remote]
            /\ remote <= local =>
                  /\ Count(sync.trace, "download assets") = 0
                  /\ disk.asset_ver = sync.found.asset_ver
                  /\ disk.assets = sync.found.assets

C14_Witness ==
    /\ sync.result = "Ok"
    /\ sync.found.asset_ver.state = "garbage"
    /\ sync.asset_info.version = 1
    /\ Count(sync.trace, "download assets") = 1
    /\ disk.asset_ver = [state |-> "int", n |-> 1]

\* A listed asset is missing, or the digest recorded for it is not the
\* digest of the installed file.
AssetBad(assets, info) ==
    \E a \in Assets :
        \/ assets[a] = "absent"
        \/ /\ info.hashes[a] # NoHash
           /\ assets[a] \in Contents
           /\ info.hashes[a].digest # assets[a]

C16_CriticalFilesOnEveryPath ==
    sync.result = "Ok" =>
        /\ disk.dir.injector
        /\ disk.dir.fasm
        /\ Count(sync.trace, "critical files") = 1

C16_Witness ==
    /\ sync.result = "Ok"
    /\ Count(sync.trace, "download dalamud") = 1
    /\ ~sync.needs_asset_update
    /\ disk.dir.injector /\ disk.dir.fasm

\* ---- the pure functions

\* The last component of a path: what follows its last separator.
LastComponent(path) ==
    LET seps == {i \in DOMAIN path : path[i] \in {"/", "\\"}}
        last == IF seps = {} THEN 0 ELSE CHOOSE i \in seps : \A j \in seps : j <= i
    IN  SubSeq(path, last + 1, Len(path))

\* C17: the normalized base path always has `addon` as its last component,
\* and normalizing a normalized path returns it unchanged.
C17_BasePathNormalized ==
    (pure.fn = "base_path" /\ pure.done) =>
        /\ LastComponent(pure.output) = << "addon" >>
        /\ base_path(pure.output) = pure.output

C17_Witness ==
    /\ pure.fn = "base_path" /\ pure.done
    /\ pure.input = << "x", "\\", "addon" >>
    /\ pure.output = pure.input

\* The byte two hex digits stand for.
HexValue(ch) == CHOOSE v \in 0..15 : HexDigits[v + 1] = ch
ByteAt(text, k) == 16 * HexValue(text[2 * k - 1]) + HexValue(text[2 * k])

\* C18: the fingerprint is 10 lowercase hex characters for 5 bytes; bytes 1-4
\* are the first four digest bytes and byte 0 is the complement of their sum
\* modulo 256, so that the five bytes sum to 255 modulo 256.
C18_FingerprintChecksum ==
    (pure.fn = "make_computer_id" /\ pure.done) =>
        LET out == pure.output
            sum4 == pure.input[1] + pure.input[2] + pure.input[3] + pure.input[4]
        IN  /\ Len(out) = 10
            /\ \A i \in 1..10 :
                 out[i] \in {"0", "1", "2", "3", "4", "5", "6", "7", "8", "9",
                             "a", "b", "c", "d", "e", "f"}
            /\ \A k \in 1..4 : ByteAt(out, k + 1) = pure.input[k]
            /\ ByteAt(out, 1) = 255 - (sum4 % 256)
            /\ (ByteAt(out, 1) + sum4) % 256 = 255

C18_Witness ==
    /\ pure.fn = "make_computer_id" /\ pure.done
    /\ pure.input = << 255, 128, 127, 1 >>
    /\ pure.output = << "0", "0", "f", "f", "8", "0", "7", "f", "0", "1" >>

\* The values of the input tags named _STORED_: a tag runs from `<input` to
\* the next `>` or `<input`, and its value is its first value attribute.
StoredTagValues(page) ==
    {page[v] : v \in {v \in DOMAIN page :
        /\ page[v] \in Values
        /\ \E i \in 1..(v - 1), n \in DOMAIN page :
             /\ page[i] = "<input"
             /\ page[n] = "name"
             /\ i < n
             /\ \A k \in (i + 1)..v : page[k] \notin {"<input", ">"}
             /\ \A k \in (i + 1)..n : page[k] \notin {"<input", ">"}
             /\ \A k \in (i + 1)..(v - 1) : page[k] \notin Values}}

\* C20: from a page with an input tag named _STORED_ of value V get_stored
\* returns exactly V; from a page without such a tag it returns the error
\* "Could not find _STORED_ value".
C20_StoredExtracted ==
    (pure.fn = "get_stored" /\ pure.done) =>
        /\ \A v \in StoredTagValues(pure.input) :
             StoredTagValues(pure.input) = {v} => pure.output = v
        /\ StoredTagValues(pure.input) = {} =>
             pure.output = "Could not find _STORED_ value"

\* ---- the session acquirer

\* C21: from a login.send response that holds `sid,T,terms` get_session_id
\* returns exactly T, also when more text or another `,terms` follows; from
\* a response without the pattern it returns an error.
C21_TokenExactlyDelimited ==
    /\ sid # NoSid =>
          /\ \E i \in 1..(Len(body) - 2) :
                /\ body[i] = Lit("SID")
                /\ body[i + 1] = Tok(issued)
                /\ body[i + 2] = Lit("TERMS")
          /\ sid = << Tok(issued) >>
    /\ (body # NoBody /\ SidMatches(body) = {} /\ pc = "Failed") =>
          result.cause = "Failed to extract session ID"

\* C23: the POST to login.send is sent only after the stored value was
\* fetched and extracted; a failed stored-value step ends the acquisition
\* without a POST; an attempt sends at most one GET and at most one POST.
C23_HandshakeOrder ==
    /\ Count(trace, "GET login/top") <= 1
    /\ Count(trace, "POST login.send") <= 1
    /\ Count(trace, "POST login.send") = 1 =>
          /\ stored \notin {"unbound", "none"}
          /\ \E i, j \in DOMAIN trace :
                i < j /\ trace[i] = "GET login/top" /\ trace[j] = "POST login.send"
    /\ (pc = "Failed" /\ result.stage = "SessionAcquire" /\ stored = "unbound") =>
          /\ Count(trace, "GET login/top") = 1
          /\ Count(trace, "POST login.send") = 0

C23_Witness ==
    /\ pc = "Failed" /\ result.cause = "Failed to send login request"
    /\ stored = "abc123"
    /\ Count(trace, "GET login/top") = 1
    /\ Count(trace, "POST login.send") = 1

\* C22: a landing-page response with a non-success status makes the
\* stored-value fetch fail, whatever the page holds.
C22_NonSuccessStatusFails ==
    (pure.fn = "get_stored_from" /\ pure.done /\ pure.input.status \notin 200..299) =>
        pure.output = "Could not find _STORED_ value"

\* C24: with is_steam set the game process has the distribution marker in
\* its environment and not among its arguments; with is_steam clear the
\* marker is in neither.
C24_SteamMarkerInEnvironment ==
    (pure.fn \in {"GameProcess", "LegacyGameProcess"} /\ pure.done) =>
        /\ "IsSteam" \notin pure.output.args
        /\ pure.output.steam_env <=> pure.input.is_steam

\* ---- the injector and the launch summary

\* C25: a non-zero exit status of the injector makes inject_dalamud and the
\* attempt fail with an error that holds the injector's standard error; an
\* injected launch is reported as successful only after a zero exit status.
C25_InjectorExitStatus ==
    /\ (injector.spawned /\ injector.status # 0) =>
          /\ pc = "Failed"
          /\ result.stage = "LaunchInjected"
          /\ result.error = "Failed to launch game with Dalamud: "
          /\ result.cause = "Injector failed"
          /\ injector.returned.detail = injector.stderr
    /\ (pc = "Done" /\ config.enable_dalamud) =>
          /\ injector.spawned
          /\ injector.status = 0

C25_Witness ==
    /\ injector.spawned /\ injector.status = 1 /\ injector.stderr = "boom"
    /\ pc = "Failed" /\ result.cause = "Injector failed"

\* The timings of a successful launch without the add-on host.
DirectTimings ==
    << "Path preparation", "Session ID retrieval", "Arguments preparation",
       "Game process creation", "Total launch time" >>

ReadOnlyCalls ==
    {"GET VersionInfo", "check_dalamud_integrity", "GET Asset/Meta", "critical files"}

\* C27: when the version directory exists and passes the integrity check
\* and the local asset version is not below the remote one, the run changes
\* nothing on disk: no download, extraction or directory creation, and
\* neither version.json nor asset.ver is written.
C27_UpToDateChangesNothing ==
    (AssetDecided /\ Intact(sync.found.dir)
       /\ LocalAssetVersion(sync.found.asset_ver) >= sync.asset_info.version) =>
        /\ disk = sync.found
        /\ \A i \in DOMAIN sync.trace : sync.trace[i] \in ReadOnlyCalls

C27_Witness ==
    /\ sync.result = "Ok"
    /\ Intact(sync.found.dir)
    /\ sync.found.asset_ver = [state |-> "int", n |-> 1]
    /\ sync.asset_info.version = 1
    /\ disk = sync.found
    /\ sync.trace = << "GET VersionInfo", "check_dalamud_integrity",
                       "GET Asset/Meta", "critical files" >>

\* The position of the call e in the trace t, 0 when it is not there.
Position(t, e) ==
    IF \E i \in DOMAIN t : t[i] = e THEN CHOOSE i \in DOMAIN t : t[i] = e ELSE 0

\* C28: a host update downloads to the temporary path, extracts into the
\* version directory, deletes the temporary archive and writes version.json,
\* in this order; version.json is written only after the three earlier steps
\* succeeded, and after a successful update the temporary archive is gone.
C28_HostUpdateOrder ==
    LET d == Position(sync.trace, "download dalamud")
        x == Position(sync.trace, "extract dalamud")
        r == Position(sync.trace, "remove dalamud_temp.zip")
        w == Position(sync.trace, "write version.json")
    IN  /\ x > 0 => (0 < d /\ d < x)
        /\ r > 0 => (0 < x /\ x < r)
        /\ w > 0 => (0 < r /\ r < w)
        /\ \A e \in {"download dalamud", "extract dalamud",
                     "remove dalamud_temp.zip", "write version.json"} :
              Count(sync.trace, e) <= 1
        /\ (sync.run > 0 /\ disk.dir.marker /\ ~sync.found.dir.marker) => w > 0
        /\ w > 0 => disk.dalamud_temp = "none"
        /\ (sync.result = "Ok" /\ sync.needs_dalamud_update) =>
              /\ w > 0
              /\ disk.dir.marker
              /\ disk.dalamud_temp = "none"

C28_Witness ==
    /\ sync.result = "Ok"
    /\ sync.needs_dalamud_update
    /\ ~sync.found.dir.marker /\ disk.dir.marker
    /\ disk.dalamud_temp = "none"
    /\ Position(sync.trace, "download dalamud") > 0
    /\ Position(sync.trace, "write version.json")
          = Position(sync.trace, "download dalamud") + 3

\* ---- the download loop

\* C29: a redirection without a location header is not followed:
\* download_file fails on it with the download-status error, the retry
\* counter is not incremented for it and no further request is issued.
C29_BareRedirectFails ==
    (Downloaded /\ dl.final = "redirect_no_location" /\ dl.redirects < MAX_RETRIES) =>
        /\ dl.status = "Download failed with status"
        /\ dl.retries = dl.redirects
        /\ dl.requests = dl.redirects + 1
        /\ pc = "Failed" => result.cause = "Download failed with status"

C29_Witness ==
    /\ dl.final = "redirect_no_location"
    /\ dl.redirects = 2 /\ dl.retries = 2 /\ dl.requests = 3
    /\ pc = "Failed" /\ result.cause = "Download failed with status"

\* C30: launch attempts running at once are not coordinated. Both build the
\* same temporary archive path from dalamud_path, so an attempt that stands
\* between its download and its extraction or deletion finds at its path
\* whatever the most recent writer or remover -- itself or the other
\* attempt -- left there; and only the other attempt can have changed it.
C30_SharedTempArchive ==
    \A p \in Attempts :
      race.at[p] \in {"extract_dalamud", "remove_dalamud_temp",
                      "extract_assets", "remove_asset_temp"} =>
        LET file == ArchiveAt(race.at[p])
            found == race.temp[TempPath(p, file)]
        IN /\ found = race.last[file].content
           /\ (race.at[p] \in {"extract_dalamud", "extract_assets"}
                  /\ found # race.got[p])
                => race.last[file].by \in Attempts \ {p}

\* Attempt A has downloaded its host archive and is about to extract it, and
\* in between attempt B has replaced or deleted the file at that path.
C30_Witness ==
    /\ race.at["A"] = "extract_dalamud"
    /\ race.got["A"] # "none"
    /\ race.last["dalamud_temp.zip"].by = "B"
    /\ race.temp[TempPath("A", "dalamud_temp.zip")] # race.got["A"]

\* C35: when the selected game executable does not exist, launch_game fails
\* before session acquisition: the attempt has sent no request to the login
\* service, holds no session id, and has started neither a game process nor
\* the injector.
C35_MissingExecutableFailsEarly ==
    (pc = "Failed" /\ result.cause = "Game executable not found") =>
        /\ result.stage = "PathPrepare"
        /\ \A i \in DOMAIN trace : trace[i] \notin LoginRequests \cup LaunchCalls
        /\ sid = NoSid /\ stored = "unbound" /\ body = NoBody
        /\ handed = << >>
        /\ handles = NoHandles
        /\ ~injector.spawned

\* C35 witness: an attempt with the add-on host enabled has synced and then
\* failed on the missing executable.
C35_Witness ==
    /\ pc = "Failed" /\ result.cause = "Game executable not found"
    /\ config.enable_dalamud
    /\ "GET VersionInfo" \in {trace[i] : i \in DOMAIN trace}

\* C31: the injector an attempt runs lies in the version directory that the
\* attempt's setup_dalamud checked, even when the version manifest changes
\* between the sync and the injection.
C31_VersionPinnedPerAttempt ==
    pin.ran # 0 => /\ pin.ran = pin.synced
                   /\ pin.hooks[pin.ran] = "checked"

\* C32: every directory handed to the injector (configuration, plugin,
\* asset and log directory) is one that the directory-creation step of
\* setup_dalamud ensures, and the command-line value of each equals the
\* value in the start info.
C32_InjectorDirectoriesEnsured ==
    (pure.fn = "directories" /\ pure.done) =>
        \A k \in DOMAIN pure.output.args :
            /\ pure.output.args[k] = pure.output.start_info[k]
            /\ pure.output.args[k] \in pure.output.ensured
            /\ pure.output.start_info[k] \in pure.output.ensured

\* C36: the delay in the start info and the delay on the injector command
\* line both equal the configured injection_delay, for every value of the
\* unsigned 64-bit delay.
C36_DelayAgrees ==
    (pure.fn = "DelayFields" /\ pure.done) =>
        /\ pure.output.delay_initialize_ms = [negative |-> FALSE, magnitude |-> pure.input]
        /\ pure.output.delay_arg = [negative |-> FALSE, magnitude |-> pure.input]
        /\ pure.output.delay_initialize_ms = pure.output.delay_arg

\* The asset update of the current run has downloaded and extracted the
\* package and found every listed asset present and matching.
AssetUpdateVerified ==
    /\ Count(sync.trace, "download assets") = 1
    /\ Count(sync.trace, "extract assets") = 1
    /\ ~AssetBad(disk.assets, sync.asset_info)

C34_DestinationOnlyOnSuccess ==
    dl.status # "none" =>
        /\ dl.status = "ok" => dl.dest = "bytes"
        /\ dl.status # "ok" => dl.dest = dl.before

\* C34, amended: the destination is written by the single fs::write that
\* follows a success status and a fully read body.  While the loop runs and
\* on every failure before that write (transport error, invalid redirect
\* URL, non-success status, too many redirects, unreadable body) the
\* destination is as it was before the call; when the write itself fails
\* the destination is as before or left truncated.
C34_DestinationWrittenByFinalWrite ==
    dl.status # "none" =>
        /\ dl.status = "ok" => dl.dest = "bytes"
        /\ dl.status = "Failed to write file" => dl.dest \in {dl.before, "partial"}
        /\ dl.status \notin {"ok", "Failed to write file"} => dl.dest = dl.before

\* C34 witness: a download has given up after too many redirects and the
\* file an earlier run left at the destination is still there.
C34_Witness ==
    /\ dl.status = "Too many redirects"
    /\ dl.before = "stale"
    /\ dl.dest = "stale"

====
